---- MODULE Spec2Model ----
(***************************************************************************)
(* isThisImageAI: the analysis pipeline (src/lib/analysis.ts) and the      *)
(* scoring rules of its seven forensic modules.                            *)
(*                                                                         *)
(* Numbers.  Scores, weights and thresholds are kept in hundredths         *)
(* (0.65 is 65, a score of 1 is 100).  Quotients are kept exact as         *)
(* records [num, den] and compared by cross-multiplication, so the         *)
(* arithmetic is that of the rationals; IEEE-754 rounding of the           *)
(* JavaScript doubles is outside the model.                                *)
(***************************************************************************)
EXTENDS Integers, Sequences, FiniteSets, TLC

VARIABLES
    scores,     \* aggregator check: the seven module scores handed to the aggregation
    agg,        \* aggregator check: what lines 51-107 of analyzeImage computed from them
    aggPc,      \* aggregator check: "input" before, "done" after the aggregation
    mod,        \* module check: the module whose scoring rules run
    inp,        \* module check: the statistics handed to the rules
    mres,       \* module check: the score before and after the clamp
    mPc,        \* module check: "input" before, "done" after the scoring
    pc,         \* analyzeImage: "idle", "reading", "modules", "resolved" or "rejected"
    runs,       \* the number of calls of analyzeImage so far
    file,       \* analyzeImage: the File argument of the call
    img,        \* analyzeImage: the image readImageFile resolved with
    task,       \* analyzeImage: the state of each of the seven promises
    out,        \* analyzeImage: what each settled promise resolved with
    firstDone,  \* analyzeImage: the module whose promise resolved first
    failures,   \* analyzeImage: the number of module promises that rejected
    result,     \* analyzeImage: the AnalysisResult the call resolved with
    seen,       \* the <<file, result>> pairs of the calls that resolved
    extraction, \* analyzeImage: how EXIF.getData ended ("none" while it has not)
    pix,        \* pixel check: the image handed to the pixel loops of a module
    pres,       \* pixel check: what the loops computed from it
    pPc,        \* pixel check: "input" before, "done" after the loops
    isAnalyzing,  \* page: the isAnalyzing state of Home
    shown,        \* page: the result state of Home (NoResult for null)
    uiPc,         \* page: the position of each call of handleImageSelect
    uiFile,       \* page: the file handed to each call of handleImageSelect
    alerts,       \* page: the number of failure alerts shown
    uiRuns,       \* page: the number of calls of handleImageSelect
    shownBy       \* page: the call whose result setResult stored last (0: none yet)

aggVars == <<scores, agg, aggPc>>

modVars == <<mod, inp, mres, mPc>>

runVars == <<pc, runs, file, img, task, out, firstDone, failures, result, seen, extraction>>

pixVars == <<pix, pres, pPc>>

uiVars == <<isAnalyzing, shown, uiPc, uiFile, alerts, uiRuns, shownBy>>

vars == <<aggVars, modVars, runVars, pixVars, uiVars>>

\* The values of variables that hold nothing yet.
NoAgg == [verdict |-> "none"]

NoImage == [width |-> 0, height |-> 0]

NoResult == [verdict |-> "none"]

NoFile == [name |-> "none"]

\* The variables of the aggregator check while another specification runs.
AggOff == scores = <<>> /\ agg = NoAgg /\ aggPc = "off"

\* The variables of the module check while another specification runs.
ModOff == mod = "none" /\ inp = <<>> /\ mres = <<>> /\ mPc = "off"

\* The variables of analyzeImage while another specification runs.
RunOff ==
    /\ pc = "off" /\ runs = 0 /\ file = NoFile /\ img = NoImage
    /\ task = <<>> /\ out = <<>> /\ firstDone = "none" /\ failures = 0
    /\ result = NoResult /\ seen = {} /\ extraction = "none"

\* The variables of the pixel check while another specification runs.
PixOff == pix = <<>> /\ pres = <<>> /\ pPc = "off"

\* The variables of the page while another specification runs.
UiOff ==
    /\ isAnalyzing = FALSE /\ shown = NoResult /\ uiPc = "off" /\ uiFile = NoFile
    /\ alerts = 0 /\ uiRuns = 0 /\ shownBy = 0

Abs(x) == IF x < 0 THEN -x ELSE x

Min(a, b) == IF a < b THEN a ELSE b

Max(a, b) == IF a > b THEN a ELSE b

\* The insertion order of the keys of `weights` / `scores` (Object.entries, Object.values).
ModuleOrder == <<"metadata", "ela", "fft", "color", "edge", "noise", "texture">>

Modules == {ModuleOrder[i] : i \in 1..Len(ModuleOrder)}

\* Array.prototype.reduce((a, b) => a + b, 0) over Object.values(f).
RECURSIVE SumUpTo(_, _)
SumUpTo(f, n) == IF n = 0 THEN 0 ELSE SumUpTo(f, n - 1) + f[ModuleOrder[n]]

SumValues(f) == SumUpTo(f, Len(ModuleOrder))

(***************************************************************************)
(* The aggregation of analyzeImage.                                        *)
(***************************************************************************)

\* Base weights, in hundredths.
weights ==
    [metadata |-> 10, ela |-> 20, fft |-> 15, color |-> 15,
     edge |-> 15, noise |-> 15, texture |-> 10]

\* Mutant of confidences: Math.abs forgotten.
confidences_Signed(s) == [k \in Modules |-> (s[k] - 50) * 2]

\* confidences[key] = Math.abs(score - 0.5) * 2, in hundredths.
confidences(s) == [k \in Modules |-> Abs(s[k] - 50) * 2]

totalConfidence(s) == SumValues(confidences(s))

\* Mutant of confidenceBoost: a confident module loses weight (factor -0.5).
confidenceBoost_Inverted(s, k) == 0 - (confidences(s)[k] \div 2)

\* Mutant of confidenceBoost: the factor 0.5 forgotten (a boost of up to 100%).
confidenceBoost_Full(s, k) == confidences(s)[k]

\* confidenceBoost = confidences[key] * 0.5, in hundredths (confidences are even).
confidenceBoost(s, k) == confidences(s)[k] \div 2

\* weights[key] * (1 + confidenceBoost), in units of 1/10000.
boostedWeight(s, k) == weights[k] * (100 + confidenceBoost(s, k))

\* Mutant of adjustedWeights: the renormalization loop of lines 70-73 forgotten.
adjustedWeights_NoRenormalize(s) ==
    IF totalConfidence(s) > 0
    THEN [num |-> [k \in Modules |-> boostedWeight(s, k)], den |-> 100 * 100]
    ELSE [num |-> weights, den |-> 100]

\* The weights after lines 59-74: weight of k is num[k] / den.  With a positive total
\* confidence every weight is boosted and divided by the total; otherwise the copy of
\* the base weights is left as it is.
adjustedWeights(s) ==
    IF totalConfidence(s) > 0
    THEN LET boosted == [k \in Modules |-> boostedWeight(s, k)]
         IN  [num |-> boosted, den |-> SumValues(boosted)]
    ELSE [num |-> weights, den |-> 100]

\* overallScore = sum of scores[k] * adjustedWeights[k], as the fraction num / den,
\* for the weights w (weight of k: w.num[k] / w.den).
overallScore(s, w) ==
    [num |-> SumValues([k \in Modules |-> s[k] * w.num[k]]), den |-> 100 * w.den]

\* Mutant of Agrees: <= 0.3 in place of < 0.3.
Agrees_Inclusive(sk, o) == Abs(sk * o.den - 100 * o.num) * 10 <= 3 * 100 * o.den

\* Math.abs(s - overallScore) < 0.3
Agrees(sk, o) == Abs(sk * o.den - 100 * o.num) * 10 < 3 * 100 * o.den

\* The number of scores passing the filter of lines 88-89.
agreeing(s, o) == Cardinality({k \in Modules : Agrees(s[k], o)})

\* confidence = agreement * 0.6 + avgConfidence * 0.4 with agreement = n / 7 and
\* avgConfidence = tc / 7 (tc: the sum of the confidences, in hundredths):
\* (600 * n + 4 * tc) / 7000.
confidence(n, tc) ==
    [num |-> 600 * n + 4 * tc, den |-> 1000 * Cardinality(Modules)]

\* Mutant of thresholdVerdict: >= in place of > at both thresholds.
thresholdVerdict_Inclusive(o) ==
    IF o.num * 100 >= 65 * o.den THEN "Likely AI"
    ELSE IF o.num * 100 >= 40 * o.den THEN "Suspicious"
    ELSE "Likely Real"

\* Lines 96-102.
thresholdVerdict(o) ==
    IF o.num * 100 > 65 * o.den THEN "Likely AI"
    ELSE IF o.num * 100 > 40 * o.den THEN "Suspicious"
    ELSE "Likely Real"

\* Mutant of downgrade: the rule of lines 104-107 left out.
downgrade_Missing(v, c) == v

\* Lines 104-107.
downgrade(v, c) ==
    IF c.num * 10 < 3 * c.den /\ v = "Likely AI" THEN "Suspicious" ELSE v

\* Everything lines 51-107 compute from the seven scores.
Aggregate(s) ==
    LET w  == adjustedWeights(s)
        o  == overallScore(s, w)
        n  == agreeing(s, o)
        tc == totalConfidence(s)
        c  == confidence(n, tc)
        v  == thresholdVerdict(o)
    IN  [totalConfidence  |-> tc,
         adjustedWeights  |-> w,
         overallScore     |-> o,
         agreeing         |-> n,
         confidence       |-> c,
         thresholdVerdict |-> v,
         verdict          |-> downgrade(v, c)]

(***************************************************************************)
(* The scoring rules of the seven modules.  Each takes the statistics its  *)
(* code has computed from the pixels (or the tags) and returns the score   *)
(* before and after the final clamp, in hundredths.  Strings are sequences *)
(* of characters.  A statistic that the code obtains as 0 / 0 is NaN.      *)
(***************************************************************************)

\* The value of 0 / 0; every comparison with it is false.
NaN == -1000000

\* a < b and a > b of JavaScript numbers.
Lt(a, b) == a # NaN /\ b # NaN /\ a < b

Gt(a, b) == a # NaN /\ b # NaN /\ a > b

\* Mutant of Clamp01: Math.max(0, ..) forgotten.
Clamp01_NoFloor(x) == Min(100, x)

\* Math.max(0, Math.min(1, score))
Clamp01(x) == Max(0, Min(100, x))

\* Math.min(score, 1)
ClampTop(x) == Min(x, 100)

\* String.prototype.includes
Includes(str, sub) ==
    \E i \in 1..(Len(str) - Len(sub) + 1) : SubSeq(str, i, i + Len(sub) - 1) = sub

\* metadata.ts line 24
suspiciousSoftware ==
    {<<"A", "d", "o", "b", "e", " ", "P", "h", "o", "t", "o", "s", "h", "o", "p">>,
     <<"G", "I", "M", "P">>,
     <<"S", "t", "a", "b", "l", "e", " ", "D", "i", "f", "f", "u", "s", "i", "o", "n">>,
     <<"M", "i", "d", "j", "o", "u", "r", "n", "e", "y">>}

\* metadata.ts line 37
commentMarkers == {<<"s", "t", "e", "p", "s", ":">>, <<"s", "e", "e", "d", ":">>, <<"c", "f", "g", ":">>}

\* metadata.ts lines 56-59
aiResolutions ==
    {<<512, 512>>, <<1024, 1024>>, <<512, 768>>, <<768, 512>>, <<1024, 1792>>, <<1792, 1024>>}

\* metadata.ts lines 62-65
isSuspiciousRes(width, height) ==
    \E r \in aiResolutions :
        \/ (width = r[1] /\ height = r[2])
        \/ (width = r[1] * 2 /\ height = r[2] * 2)

\* The value of allTags.UserComment.  The tag is absent ("none"), or it was written with
\* the EXIF type ASCII and is a string ("string"), or it has the type UNDEFINED the EXIF
\* standard gives it and is an array of the character codes of its text ("codes", the
\* case the comment of line 35 names).
NoComment == [type |-> "none", text |-> <<>>]

\* String.prototype.charCodeAt for the characters of the model.
CharCode(c) ==
    CASE c = " " -> 32 [] c = "1" -> 49 [] c = ":" -> 58
      [] c = "c" -> 99 [] c = "d" -> 100 [] c = "e" -> 101 [] c = "f" -> 102
      [] c = "g" -> 103 [] c = "h" -> 104 [] c = "i" -> 105 [] c = "p" -> 112
      [] c = "s" -> 115 [] c = "t" -> 116

DigitChars == <<"0", "1", "2", "3", "4", "5", "6", "7", "8", "9">>

\* Number.prototype.toString of a natural number, as a sequence of characters.
RECURSIVE Decimal(_)
Decimal(n) ==
    IF n < 10 THEN <<DigitChars[n + 1]>>
    ELSE Decimal(n \div 10) \o <<DigitChars[(n % 10) + 1]>>

\* Array.prototype.toString of the array of the character codes of text: the codes in
\* decimal, joined by commas.
RECURSIVE JoinCodes(_)
JoinCodes(text) ==
    IF Len(text) = 0 THEN <<>>
    ELSE IF Len(text) = 1 THEN Decimal(CharCode(text[1]))
    ELSE Decimal(CharCode(text[1])) \o <<",">> \o JoinCodes(Tail(text))

\* metadata.ts line 36: allTags.UserComment.toString().
UserCommentToString(c) ==
    IF c.type = "codes" THEN JoinCodes(c.text) ELSE c.text

\* metadata.ts line 34: the truth value of allTags.UserComment (an array is truthy, the
\* empty string and undefined are not).
HasUserComment(c) ==
    c.type = "codes" \/ (c.type = "string" /\ c.text # <<>>)

\* metadata.ts lines 18-27: the software term.
SoftwareTerm(st) ==
    IF st.software # <<>> /\ \E sw \in suspiciousSoftware : Includes(st.software, sw)
    THEN 40 ELSE 0

\* metadata.ts lines 34-41: the comment term.
CommentTerm(st) ==
    IF HasUserComment(st.comment)
       /\ \E mk \in commentMarkers : Includes(UserCommentToString(st.comment), mk)
    THEN 80 ELSE 0

\* Mutant of TagTerms: a file without tags adds nothing.
TagTerms_NoTagsFree(st) ==
    IF st.exifPresent THEN SoftwareTerm(st) + CommentTerm(st) ELSE 0

\* metadata.ts lines 14-49: the terms drawn from the tags.
TagTerms(st) ==
    IF st.exifPresent THEN SoftwareTerm(st) + CommentTerm(st) ELSE 30

\* metadata.ts lines 67-70: the resolution term.
ResolutionTerm(st) == IF isSuspiciousRes(st.width, st.height) THEN 20 ELSE 0

\* metadata.ts lines 73-76: the square term.
SquareTerm(st) == IF st.width = st.height /\ st.width > 256 THEN 10 ELSE 0

\* metadata.ts lines 11-83.  st.exifPresent: Object.keys(allTags).length > 0;
\* st.software: allTags.Software (the empty string when the tag is absent);
\* st.comment: allTags.UserComment; st.width, st.height: the values of
\* `this.width || 0` and `this.height || 0`.
MetadataRaw(st) ==
    TagTerms(st) + ResolutionTerm(st) + SquareTerm(st)

MetadataScore(st) == ClampTop(MetadataRaw(st))

\* Mutant of CVBelow: the variance is compared, not its square root.
CVBelow_Variance(st, p, q) ==
    st.variance # NaN /\ st.variance >= 0 /\ q * st.variance < p * st.mean

\* sqrt(variance) / mean < p / q, for mean > 0.
CVBelow(st, p, q) ==
    st.variance # NaN /\ st.variance >= 0 /\ q * q * st.variance < p * p * st.mean * st.mean

\* sqrt(variance) / mean > p / q, for mean > 0.
CVAbove(st, p, q) ==
    st.variance # NaN /\ st.variance >= 0 /\ q * q * st.variance > p * p * st.mean * st.mean

\* ela.ts lines 79-145.  st.regionVariance, st.mean, st.variance in units of the
\* amplified difference (0..255).
ELARaw(st) ==
    (IF Lt(st.regionVariance, 50) THEN 30 ELSE 0)
    + (IF Lt(st.mean, 10) THEN 90
       ELSE IF Lt(st.mean, 20) THEN 60
       ELSE IF Lt(st.mean, 35) THEN 30 ELSE 0)
    + (IF Lt(st.variance, 100) THEN 60
       ELSE IF Lt(st.variance, 300) THEN 40
       ELSE IF Gt(st.variance, 1200) THEN -30 ELSE 0)
    + (IF ~Gt(st.mean, 0) \/ CVBelow(st, 3, 10) THEN 40
       ELSE IF CVAbove(st, 1, 2) /\ CVBelow(st, 3, 2) THEN -20 ELSE 0)

ELAScore(st) == Clamp01(ELARaw(st))

\* fft.ts lines 162-245.  Ratios in thousandths.
FFTRaw(st) ==
    (IF Gt(st.lowFreqRatio, 950) THEN 50
     ELSE IF Lt(st.lowFreqRatio, 700) THEN 20 ELSE 0)
    + (IF Gt(st.highFreqRatio, 150) THEN 40 ELSE 0)
    + (IF st.gridPatterns > 3 THEN 50
       ELSE IF st.gridPatterns > 0 THEN 20 ELSE 0)
    + (IF Gt(st.cornerRatio, 50) THEN 40 ELSE 0)

FFTScore(st) == Clamp01(FFTRaw(st))

\* color_analysis.ts lines 49-125.  st.peaks: rPeaks + gPeaks + bPeaks; avgSaturation in
\* 0..255; clippingRatio in thousandths; avgVariance and totalPixels as they are.
ColorRaw(st) ==
    (IF st.peaks < 10 THEN 30 ELSE 0)
    + (IF Gt(st.avgSaturation, 180) THEN 40
       ELSE IF Lt(st.avgSaturation, 30) THEN 20 ELSE 0)
    + (IF Gt(st.clippingRatio, 150) THEN 30 ELSE 0)
    + (IF 2 * st.avgVariance < st.totalPixels THEN 20 ELSE 0)
    + (IF st.gradientSmoothness > 50 THEN 30 ELSE 0)

ColorScore(st) == Clamp01(ColorRaw(st))

\* ela.ts (edge detection) lines 235-320.  st.length: edges.length; ratios in
\* thousandths.
EdgeRaw(st) ==
    (IF 100 * st.strongEdges > 15 * st.length THEN 40 ELSE 0)
    + (IF Lt(st.edgeVariance, 1000) THEN 30 ELSE 0)
    + (IF Gt(st.coherenceRatio, 600) THEN 30 ELSE 0)
    + (IF Gt(st.smoothRatio, 400) THEN 30 ELSE 0)

EdgeScore(st) == Clamp01(EdgeRaw(st))

\* Mutant of NoiseRaw: the too-clean term is not applied when no sample was taken.
NoiseRaw_SamplesOnly(st) ==
    (IF st.samples > 0 /\ Lt(st.avgNoise, 15) THEN 50
     ELSE IF Gt(st.avgNoise, 150) THEN 20 ELSE 0)
    + (IF Lt(st.coefficientOfVariation, 30) THEN 30
       ELSE IF Gt(st.coefficientOfVariation, 200) THEN 20 ELSE 0)
    + (IF 10 * st.periodicPatterns > st.samples THEN 40 ELSE 0)
    + (IF Gt(st.tooFlatRatio, 300) THEN 30 ELSE 0)

\* Noise analysis lines 127-215.  avgNoise in tenths, coefficientOfVariation in
\* hundredths, tooFlatRatio in thousandths; st.samples: noiseSamples.length.
NoiseRaw(st) ==
    (IF Lt(st.avgNoise, 15) THEN 50
     ELSE IF Gt(st.avgNoise, 150) THEN 20 ELSE 0)
    + (IF Lt(st.coefficientOfVariation, 30) THEN 30
       ELSE IF Gt(st.coefficientOfVariation, 200) THEN 20 ELSE 0)
    + (IF 10 * st.periodicPatterns > st.samples THEN 40 ELSE 0)
    + (IF Gt(st.tooFlatRatio, 300) THEN 30 ELSE 0)

NoiseScore(st) == Clamp01(NoiseRaw(st))

\* texture_analysis.ts lines 57-177.  Ratios and the normalized entropy in thousandths.
TextureRaw(st) ==
    (IF st.nonZeroPatterns < 80 THEN 40 ELSE 0)
    + (IF Gt(st.dominanceRatio, 300) THEN 30 ELSE 0)
    + (IF Gt(st.repetitionRatio, 50) THEN 40 ELSE 0)
    + (IF Gt(st.smoothRatio, 400) THEN 30 ELSE 0)
    + (IF Lt(st.normalizedEntropy, 400) THEN 30 ELSE 0)

TextureScore(st) == Clamp01(TextureRaw(st))

\* The score variable of module m just before its return statement.
ModuleRaw(m, st) ==
    CASE m = "metadata" -> MetadataRaw(st)
      [] m = "ela"      -> ELARaw(st)
      [] m = "fft"      -> FFTRaw(st)
      [] m = "color"    -> ColorRaw(st)
      [] m = "edge"     -> EdgeRaw(st)
      [] m = "noise"    -> NoiseRaw(st)
      [] m = "texture"  -> TextureRaw(st)

\* The score module m returns.
ModuleScore(m, st) ==
    CASE m = "metadata" -> MetadataScore(st)
      [] m = "ela"      -> ELAScore(st)
      [] m = "fft"      -> FFTScore(st)
      [] m = "color"    -> ColorScore(st)
      [] m = "edge"     -> EdgeScore(st)
      [] m = "noise"    -> NoiseScore(st)
      [] m = "texture"  -> TextureScore(st)


(***************************************************************************)
(* analyzeImage as a process: the call, readImageFile, the seven module    *)
(* promises handed to Promise.all, the aggregation and the result.         *)
(***************************************************************************)

\* The modules that take the decoded image (analyzeMetadata takes the file).
PixelModules == Modules \ {"metadata"}

NoOut == [score |-> NaN]

\* readImageFile resolves with the image element: its dimensions and its pixels, the
\* pixels being kept as the statistics each module draws from them.
Decode(f) == [width |-> f.width, height |-> f.height, stats |-> f.stats]

\* `this` inside the EXIF.getData callback is the File handed to getData; a File has no
\* width or height property, so `this.width || 0` and `this.height || 0` are 0.
ThisWidth(f) == 0

ThisHeight(f) == 0

\* The tag table of a file without tags.
NoTags == [exifPresent |-> FALSE, software |-> <<>>, comment |-> NoComment]

\* metadata.ts line 8: EXIF.getAllTags(this) in the callback, the tags of the file or,
\* when the library could not parse them, an empty table.
AllTags(f) == IF f.exifReadable THEN f.tags ELSE NoTags

\* What the scoring rules of analyzeMetadata read.
MetadataInput(f) ==
    [exifPresent |-> AllTags(f).exifPresent, software |-> AllTags(f).software,
     comment |-> AllTags(f).comment, width |-> ThisWidth(f), height |-> ThisHeight(f)]

\* metadata.ts lines 9-76: the lines pushed to details, each named by its kind.
MetadataDetails(st) ==
    (IF st.exifPresent
     THEN (IF st.software # <<>>
           THEN {"software"} \cup (IF SoftwareTerm(st) > 0 THEN {"suspicious software"} ELSE {})
           ELSE {"no software"})
          \cup (IF CommentTerm(st) > 0 THEN {"generation parameters"} ELSE {})
     ELSE {"no exif"})
    \cup (IF ResolutionTerm(st) > 0 THEN {"resolution"} ELSE {})
    \cup (IF SquareTerm(st) > 0 THEN {"square"} ELSE {})

\* The value the promise of module m resolves with for file f and image im (the
\* visualization and, for the pixel modules, the diagnostics are left out).
ModuleResult(m, f, im) ==
    IF m = "metadata"
    THEN [score |-> MetadataScore(MetadataInput(f)), exifPresent |-> AllTags(f).exifPresent,
          details |-> MetadataDetails(MetadataInput(f))]
    ELSE [score |-> ModuleScore(m, im.stats[m])]


\* Mutant of TaskOutput: the module keeps its score in a variable outside the function,
\* which is not reset between calls, so the terms of an earlier call are still in it.
TaskOutput_Accumulating(m) ==
    LET r == ModuleResult(m, file, img)
    IN  IF seen = {} THEN r
        ELSE [r EXCEPT !.score = Min(100, r.score + (CHOOSE p \in seen : TRUE)[2][m].score)]

\* The value the promise of module m resolves with in the current call.
TaskOutput(m) == ModuleResult(m, file, img)

\* Mutant of BuildResult: the destructuring of line 15 names edge and noise in the
\* other order.
BuildResult_Swapped(f, im, o) ==
    LET a == Aggregate([m \in Modules |-> o[m].score])
    IN  [fileName |-> f.name, dimensions |-> <<im.width, im.height>>,
         mimeType |-> f.mimeType,
         metadata |-> o["metadata"], ela |-> o["ela"], fft |-> o["fft"],
         color |-> o["color"], edge |-> o["noise"], noise |-> o["edge"],
         texture |-> o["texture"],
         overallScore |-> a.overallScore, confidence |-> a.confidence,
         verdict |-> a.verdict]

\* Lines 25-124: the AnalysisResult built from the seven resolved values o.
BuildResult(f, im, o) ==
    LET a == Aggregate([m \in Modules |-> o[m].score])
    IN  [fileName |-> f.name, dimensions |-> <<im.width, im.height>>,
         mimeType |-> f.mimeType,
         metadata |-> o["metadata"], ela |-> o["ela"], fft |-> o["fft"],
         color |-> o["color"], edge |-> o["edge"], noise |-> o["noise"],
         texture |-> o["texture"],
         overallScore |-> a.overallScore, confidence |-> a.confidence,
         verdict |-> a.verdict]

\* Mutant of Rejects: a rejected module promise is swallowed.
Rejects_Swallowed(t) == FALSE

\* Promise.all rejects as soon as one of its promises has rejected.
Rejects(t) == \E m \in Modules : t[m] = "failed"

\* Promise.all resolves once every promise has resolved.
AllResolved(t) == \A m \in Modules : t[m] = "done"

(***************************************************************************)
(* The files of the model.                                                 *)
(***************************************************************************)

\* A render without tags: little recompression error, smooth spectrum, no noise.
StatsSynthetic ==
    [ela     |-> [regionVariance |-> 2, mean |-> 4, variance |-> 3],
     fft     |-> [lowFreqRatio |-> 960, highFreqRatio |-> 10, gridPatterns |-> 0,
                  cornerRatio |-> 2],
     color   |-> [peaks |-> 3, avgSaturation |-> 200, clippingRatio |-> 10,
                  avgVariance |-> 900, totalPixels |-> 4096, gradientSmoothness |-> 12],
     edge    |-> [strongEdges |-> 0, length |-> 4096, edgeVariance |-> 40,
                  coherenceRatio |-> 0, smoothRatio |-> 250],
     noise   |-> [avgNoise |-> 2, coefficientOfVariation |-> 20, periodicPatterns |-> 0,
                  samples |-> 2450, tooFlatRatio |-> 100],
     texture |-> [nonZeroPatterns |-> 40, dominanceRatio |-> 200, repetitionRatio |-> 0,
                  smoothRatio |-> 100, normalizedEntropy |-> 600]]

\* A camera photograph: uneven recompression error, sensor noise, varied texture.
StatsPhoto ==
    [ela     |-> [regionVariance |-> 120, mean |-> 40, variance |-> 900],
     fft     |-> [lowFreqRatio |-> 800, highFreqRatio |-> 60, gridPatterns |-> 1,
                  cornerRatio |-> 10],
     color   |-> [peaks |-> 12, avgSaturation |-> 90, clippingRatio |-> 20,
                  avgVariance |-> 9000, totalPixels |-> 4096, gradientSmoothness |-> 5],
     edge    |-> [strongEdges |-> 100, length |-> 4096, edgeVariance |-> 2500,
                  coherenceRatio |-> 200, smoothRatio |-> 500],
     noise   |-> [avgNoise |-> 40, coefficientOfVariation |-> 80, periodicPatterns |-> 0,
                  samples |-> 980, tooFlatRatio |-> 0],
     texture |-> [nonZeroPatterns |-> 200, dominanceRatio |-> 100, repetitionRatio |-> 0,
                  smoothRatio |-> 0, normalizedEntropy |-> 800]]

\* A generated picture saved with its generation parameters, upscaled with visible
\* grid artifacts.
StatsGenerated ==
    [ela     |-> [regionVariance |-> 20, mean |-> 40, variance |-> 400],
     fft     |-> [lowFreqRatio |-> 600, highFreqRatio |-> 200, gridPatterns |-> 6,
                  cornerRatio |-> 60],
     color   |-> [peaks |-> 2, avgSaturation |-> 190, clippingRatio |-> 200,
                  avgVariance |-> 9000, totalPixels |-> 4096, gradientSmoothness |-> 5],
     edge    |-> [strongEdges |-> 100, length |-> 4096, edgeVariance |-> 2500,
                  coherenceRatio |-> 200, smoothRatio |-> 500],
     noise   |-> [avgNoise |-> 40, coefficientOfVariation |-> 20, periodicPatterns |-> 0,
                  samples |-> 980, tooFlatRatio |-> 0],
     texture |-> [nonZeroPatterns |-> 20, dominanceRatio |-> 400, repetitionRatio |-> 0,
                  smoothRatio |-> 500, normalizedEntropy |-> 800]]

\* exifReadable: whether the library can parse the tag segment of the file (that of
\* edited.jpg was damaged by the program that saved it last).
Files ==
    {[name |-> "render.png", mimeType |-> "image/png", decodable |-> TRUE,
      exifReadable |-> TRUE,
      width |-> 64, height |-> 64, tags |-> NoTags, stats |-> StatsSynthetic],
     [name |-> "photo.jpg", mimeType |-> "image/jpeg", decodable |-> TRUE,
      exifReadable |-> TRUE,
      width |-> 640, height |-> 480,
      tags |-> [exifPresent |-> TRUE, software |-> <<"C", "a", "n", "o", "n">>,
               comment |-> NoComment],
      stats |-> StatsPhoto],
     [name |-> "generated.jpg", mimeType |-> "image/jpeg", decodable |-> TRUE,
      exifReadable |-> TRUE,
      width |-> 1024, height |-> 1024,
      tags |-> [exifPresent |-> TRUE, software |-> <<"G", "I", "M", "P">>,
               comment |-> [type |-> "string", text |-> <<"s", "e", "e", "d", ":", "1">>]],
      stats |-> StatsGenerated],
     [name |-> "broken.jpg", mimeType |-> "image/jpeg", decodable |-> FALSE,
      exifReadable |-> FALSE,
      width |-> 0, height |-> 0, tags |-> NoTags, stats |-> <<>>],
     [name |-> "edited.jpg", mimeType |-> "image/jpeg", decodable |-> TRUE,
      exifReadable |-> FALSE,
      width |-> 640, height |-> 480,
      tags |-> [exifPresent |-> TRUE, software |-> <<"G", "I", "M", "P">>,
               comment |-> NoComment],
      stats |-> StatsPhoto]}

\* The number of calls of analyzeImage in a behaviour.
MaxRuns == 3

\* The number of module promises that reject within one call.
MaxFailures == 1

(***************************************************************************)
(* Specification Spec: calls of analyzeImage, one after the other.         *)
(***************************************************************************)

Init ==
    /\ pc = "idle"
    /\ runs = 0
    /\ file = NoFile
    /\ img = NoImage
    /\ task = [m \in Modules |-> "idle"]
    /\ out = [m \in Modules |-> NoOut]
    /\ firstDone = "none"
    /\ failures = 0
    /\ result = NoResult
    /\ seen = {}
    /\ extraction = "none"
    /\ AggOff
    /\ ModOff
    /\ PixOff
    /\ UiOff

\* analyzeImage(f) is called and readImageFile(f) is awaited (line 12).
Call(f) ==
    /\ pc = "idle"
    /\ runs < MaxRuns
    /\ runs' = runs + 1
    /\ pc' = "reading"
    /\ file' = f
    /\ img' = NoImage
    /\ task' = [m \in Modules |-> "idle"]
    /\ out' = [m \in Modules |-> NoOut]
    /\ firstDone' = "none"
    /\ failures' = 0
    /\ result' = NoResult
    /\ extraction' = "none"
    /\ UNCHANGED <<seen, aggVars, modVars, pixVars, uiVars>>

\* readImageFile resolves (img.onload); the seven module functions are called and their
\* promises handed to Promise.all (lines 15-23).
ReadResolves ==
    /\ pc = "reading"
    /\ file.decodable
    /\ img' = Decode(file)
    /\ task' = [m \in Modules |-> "pending"]
    /\ pc' = "modules"
    /\ UNCHANGED <<runs, file, out, firstDone, failures, result, seen, extraction,
                   aggVars, modVars, pixVars, uiVars>>

\* readImageFile rejects (reader.onerror, img.onerror): analyzeImage rejects at line 12.
ReadRejects ==
    /\ pc = "reading"
    /\ ~file.decodable
    /\ pc' = "rejected"
    /\ UNCHANGED <<runs, file, img, task, out, firstDone, failures, result, seen,
                   extraction, aggVars, modVars, pixVars, uiVars>>

\* The promise of module m resolves (for metadata: EXIF.getData has read the tags of the
\* file and called the callback of line 7).
TaskResolves(m) ==
    /\ task[m] = "pending"
    /\ m = "metadata" => file.exifReadable
    /\ task' = [task EXCEPT ![m] = "done"]
    /\ out' = [out EXCEPT ![m] = TaskOutput(m)]
    /\ firstDone' = IF firstDone = "none" THEN m ELSE firstDone
    /\ extraction' = IF m = "metadata" THEN "read" ELSE extraction
    /\ UNCHANGED <<pc, runs, file, img, failures, result, seen, aggVars, modVars, pixVars, uiVars>>

\* EXIF.getData cannot extract the tags of the file.  Either the library cannot parse
\* the tag segment and calls the callback with an empty tag table (called), or its read
\* of the file fails: analyzeMetadata hands getData nothing but the callback (lines
\* 5-7), which is then never called, and the promise stays pending.
ExtractionFails(called) ==
    /\ task["metadata"] = "pending"
    /\ called => ~file.exifReadable
    /\ extraction' = "failed"
    /\ IF called
       THEN /\ task' = [task EXCEPT !["metadata"] = "done"]
            /\ out' = [out EXCEPT !["metadata"] = TaskOutput("metadata")]
            /\ firstDone' = IF firstDone = "none" THEN "metadata" ELSE firstDone
       ELSE /\ task' = [task EXCEPT !["metadata"] = "stalled"]
            /\ UNCHANGED <<out, firstDone>>
    /\ UNCHANGED <<pc, runs, file, img, failures, result, seen, aggVars, modVars, pixVars, uiVars>>

\* The re-encoded JPEG of analyzeELA does not load (img2 fires error, not load): the
\* promise of line 22 listens for load alone and stays pending, and so does analyzeELA.
ReloadFails ==
    /\ task["ela"] = "pending"
    /\ task' = [task EXCEPT !["ela"] = "stalled"]
    /\ UNCHANGED <<pc, runs, file, img, out, firstDone, failures, result, seen, extraction,
                   aggVars, modVars, pixVars, uiVars>>

\* The promise of pixel module m rejects (no canvas context, or the visualization cannot
\* be encoded); Promise.all, if still pending, rejects and so does analyzeImage.
\* analyzeMetadata never rejects its promise.
TaskRejects(m) ==
    /\ m \in PixelModules
    /\ task[m] = "pending"
    /\ failures < MaxFailures
    /\ failures' = failures + 1
    /\ task' = [task EXCEPT ![m] = "failed"]
    /\ pc' = IF pc = "modules" /\ Rejects(task') THEN "rejected" ELSE pc
    /\ UNCHANGED <<runs, file, img, out, firstDone, result, seen, extraction,
                   aggVars, modVars, pixVars, uiVars>>

\* Promise.all resolves; lines 25-124 run and analyzeImage resolves with their result.
Join ==
    /\ pc = "modules"
    /\ AllResolved(task)
    /\ result' = BuildResult(file, img, out)
    /\ pc' = "resolved"
    /\ UNCHANGED <<runs, file, img, task, out, firstDone, failures, seen, extraction,
                   aggVars, modVars, pixVars, uiVars>>

\* The caller has taken the outcome of the call and every module promise has settled.
Return ==
    /\ pc \in {"resolved", "rejected"}
    /\ \A m \in Modules : task[m] # "pending"
    /\ seen' = IF pc = "resolved" THEN seen \cup {<<file, result>>} ELSE seen
    /\ pc' = "idle"
    /\ UNCHANGED <<runs, file, img, task, out, firstDone, failures, result, extraction,
                   aggVars, modVars, pixVars, uiVars>>

Next ==
    \/ \E f \in Files : Call(f)
    \/ ReadResolves
    \/ ReadRejects
    \/ \E m \in Modules : TaskResolves(m)
    \/ \E m \in Modules : TaskRejects(m)
    \/ \E called \in BOOLEAN : ExtractionFails(called)
    \/ ReloadFails
    \/ Join
    \/ Return

Spec == Init /\ [][Next]_vars

\* The browser's event loop runs a callback that is ready: a call that can take a step
\* takes one.
SpecLive == Spec /\ WF_vars(Next)

(***************************************************************************)
(* Specification SpecAgg: the aggregation applied to score vectors.        *)
(***************************************************************************)

\* Score values every module may take independently of the others (hundredths).
CoarseScores == {0, 30, 100}

\* Score values tried with all seven modules equal.
FineScores == 0..100

\* Score values two modules take while the other five stay at 0.5.
PairScores == {10 * i : i \in 0..10}

\* Score values of modules that are decided for AI or weakly for real.
DecidedScores == {30, 90, 100}

ScoreVectors ==
    [Modules -> CoarseScores]
    \cup [Modules -> DecidedScores]
    \cup {[k \in Modules |-> v] : v \in FineScores}
    \cup {[k \in Modules |-> IF k = a THEN u ELSE IF k = b THEN v ELSE 50] :
            <<a, b, u, v>> \in Modules \X Modules \X PairScores \X PairScores}

InitAgg ==
    /\ scores \in ScoreVectors
    /\ agg = NoAgg
    /\ aggPc = "input"
    /\ ModOff
    /\ RunOff
    /\ PixOff
    /\ UiOff

RunAggregate ==
    /\ aggPc = "input"
    /\ agg' = Aggregate(scores)
    /\ aggPc' = "done"
    /\ UNCHANGED <<scores, modVars, runVars, pixVars, uiVars>>

NextAgg == RunAggregate

SpecAgg == InitAgg /\ [][NextAgg]_vars

(***************************************************************************)
(* Specification SpecModules: the scoring rules of each module applied to  *)
(* statistics on both sides of every threshold.                            *)
(***************************************************************************)

\* Texts of a UserComment tag: with one marker, with two, with none.
CommentTexts ==
    {<<"s", "e", "e", "d", ":", " ", "1">>,
     <<"s", "t", "e", "p", "s", ":", "1", " ", "c", "f", "g", ":", "1">>,
     <<"h", "i">>}

UserComments ==
    {NoComment} \cup [type : {"string", "codes"}, text : CommentTexts]

MetadataInputs ==
    {st \in [exifPresent : BOOLEAN,
             software : {<<>>, <<"G", "I", "M", "P">>, <<"g", "i", "m", "p">>},
             comment : UserComments,
             width : {0, 256, 512, 1024},
             height : {0, 256, 512, 768, 1024}] :
        st.exifPresent \/ (st.software = <<>> /\ st.comment = NoComment)}

\* The variance of values in 0..255 with mean m is at most m * (255 - m); the four
\* quadrant means are NaN when the image is one pixel wide or high.
ELAInputs ==
    {st \in [regionVariance : {NaN, 0, 49, 50, 400},
             mean : {0, 9, 10, 19, 20, 34, 35, 100},
             variance : {0, 8, 99, 100, 299, 300, 1200, 1201, 5000}] :
        st.variance <= st.mean * (255 - st.mean)}

\* The three bands make up the total; the ratios are NaN for an image whose spectrum is
\* all zero (totalEnergy = 0).
FFTInputs ==
    {st \in [lowFreqRatio : {NaN, 0, 699, 700, 950, 951},
             highFreqRatio : {NaN, 0, 49, 150, 151, 300},
             gridPatterns : {0, 1, 3, 4},
             cornerRatio : {NaN, 0, 50, 51}] :
        \/ st.lowFreqRatio = NaN /\ st.highFreqRatio = NaN /\ st.cornerRatio = NaN
              /\ st.gridPatterns = 0
        \/ st.lowFreqRatio # NaN /\ st.highFreqRatio # NaN /\ st.cornerRatio # NaN
              /\ st.lowFreqRatio + st.highFreqRatio <= 1000}

ColorInputs ==
    [peaks : {0, 9, 10},
     avgSaturation : {0, 29, 30, 180, 181},
     clippingRatio : {0, 150, 151},
     avgVariance : {0, 49, 50, 51},
     totalPixels : {100},
     gradientSmoothness : {0, 50, 51}]

\* smoothRatio is NaN when the image holds no full 20x20 block in one direction.
EdgeInputs ==
    [strongEdges : {0, 15, 16},
     length : {100},
     edgeVariance : {0, 999, 1000},
     coherenceRatio : {0, 600, 601, 1000},
     smoothRatio : {NaN, 0, 400, 401, 1000}]

NoiseInputs ==
    {st \in [avgNoise : {0, 14, 15, 150, 151},
             coefficientOfVariation : {0, 29, 30, 200, 201},
             periodicPatterns : {0, 4, 5, 10},
             samples : {0, 49, 98},
             tooFlatRatio : {0, 300, 301, 1000}] :
        st.periodicPatterns <= st.samples}

TextureInputs ==
    [nonZeroPatterns : {0, 1, 79, 80},
     dominanceRatio : {NaN, 300, 301, 1000},
     repetitionRatio : {NaN, 0, 50, 51},
     smoothRatio : {NaN, 0, 400, 401},
     normalizedEntropy : {0, 399, 400}]

ModuleInputs(m) ==
    CASE m = "metadata" -> MetadataInputs
      [] m = "ela"      -> ELAInputs
      [] m = "fft"      -> FFTInputs
      [] m = "color"    -> ColorInputs
      [] m = "edge"     -> EdgeInputs
      [] m = "noise"    -> NoiseInputs
      [] m = "texture"  -> TextureInputs

InitModules ==
    /\ mod \in Modules
    /\ inp \in ModuleInputs(mod)
    /\ mres = <<>>
    /\ mPc = "input"
    /\ AggOff
    /\ RunOff
    /\ PixOff
    /\ UiOff

RunModule ==
    /\ mPc = "input"
    /\ mres' = [raw |-> ModuleRaw(mod, inp), score |-> ModuleScore(mod, inp)]
    /\ mPc' = "done"
    /\ UNCHANGED <<mod, inp, aggVars, runVars, pixVars, uiVars>>

NextModules == RunModule

SpecModules == InitModules /\ [][NextModules]_vars

\* C1: the score each of the seven modules returns is a number in [0,1], also when the
\* terms that fired add up to less than 0 or to more than 1.
C1_ScoreInUnitInterval ==
    mPc = "done" => (mres.score # NaN /\ 0 <= mres.score /\ mres.score <= 100)

\* The subtractive terms of the ELA module outweigh the additive ones and the score
\* returned is 0.
C1_Witness ==
    /\ mPc = "done"
    /\ mod = "ela"
    /\ mres.raw < 0
    /\ mres.score = 0

(***************************************************************************)
(* Specification SpecELA: the pixel loops of analyzeELA (ela.ts lines      *)
(* 33-109) on small images.  An image is a function from the coordinates   *)
(* <<x, y>> to the pixel's R, G, B in the original canvas (o) and in the   *)
(* canvas of the re-encoded JPEG (c).                                      *)
(***************************************************************************)

\* ela.ts line 6
scale == 20

\* The largest width and height of the images of the pixel check.
MaxSide == 3

\* A store into a Uint8ClampedArray (ImageData.data): an integer is clamped to 0..255.
Uint8Clamped(v) == IF v > 255 THEN 255 ELSE IF v < 0 THEN 0 ELSE v

\* ela.ts lines 40-42: rDiff, gDiff, bDiff of a pixel (ch = 1, 2, 3).
ChannelDiff(px, ch) == Abs(px.o[ch] - px.c[ch])

\* ela.ts lines 48-50: what diffData.data holds for a channel of a pixel.
DiffData(px, ch) == Uint8Clamped(ChannelDiff(px, ch) * scale)

\* ela.ts lines 65 and 95: val, times 3.
Val3(px) == DiffData(px, 1) + DiffData(px, 2) + DiffData(px, 3)

Coordinates(w, h) == (0..(w - 1)) \X (0..(h - 1))

RECURSIVE SumOver(_, _)
\* The sum of f over the set S.
SumOver(f, S) ==
    IF S = {} THEN 0
    ELSE LET e == CHOOSE x \in S : TRUE IN f[e] + SumOver(f, S \ {e})

\* ela.ts lines 83-84
RegionWidth(w) == w \div 2

RegionHeight(h) == h \div 2

\* ela.ts lines 92-93: the pixels the two inner loops visit for region (rx, ry).
Region(rx, ry, w, h) ==
    {c \in Coordinates(w, h) :
        /\ rx * RegionWidth(w) <= c[1] /\ c[1] < (rx + 1) * RegionWidth(w)
        /\ ry * RegionHeight(h) <= c[2] /\ c[2] < (ry + 1) * RegionHeight(h)}

\* ela.ts lines 87-88: the regions in the order of the loops.
RegionOrder == <<<<0, 0>>, <<1, 0>>, <<0, 1>>, <<1, 1>>>>

RECURSIVE GCD(_, _)
GCD(a, b) == IF b = 0 THEN a ELSE GCD(b, a % b)

LCM(a, b) == (a * b) \div GCD(a, b)

\* ela.ts lines 33-109 for the image im of width w and height h.  val3: 3 * val of each
\* pixel; mean and variance (lines 70-71) and regionVariance (lines 107-109) as
\* fractions; regionPixels and regionDiff3 (3 * regionDiff) per region.  A region
\* without pixels has the mean 0 / 0, which makes regionVariance NaN.
ELAPixels(w, h, im) ==
    LET v3 == [c \in Coordinates(w, h) |-> Val3(im[c])]
        n  == w * h
        s  == SumOver(v3, Coordinates(w, h))
        sq == SumOver([c \in Coordinates(w, h) |-> v3[c] * v3[c]], Coordinates(w, h))
        reg == [i \in 1..4 |-> Region(RegionOrder[i][1], RegionOrder[i][2], w, h)]
        rn == [i \in 1..4 |-> Cardinality(reg[i])]
        rs == [i \in 1..4 |-> SumOver(v3, reg[i])]
        defined == \A i \in 1..4 : rn[i] > 0
        \* the region means rs[i] / (3 * rn[i]) over the common denominator 3 * l
        l  == IF defined THEN LCM(LCM(rn[1], rn[2]), LCM(rn[3], rn[4])) ELSE 1
        m  == [i \in 1..4 |-> IF defined THEN rs[i] * (l \div rn[i]) ELSE 0]
        ms == m[1] + m[2] + m[3] + m[4]
        dv == [i \in 1..4 |-> (4 * m[i] - ms) * (4 * m[i] - ms)]
    IN  [val3 |-> v3,
         mean |-> [num |-> s, den |-> 3 * n],
         variance |-> [num |-> n * sq - s * s, den |-> 9 * n * n],
         regions |-> reg,
         regionPixels |-> rn,
         regionDiff3 |-> rs,
         regionVariance |->
             IF defined
             THEN [num |-> dv[1] + dv[2] + dv[3] + dv[4], den |-> 4 * 16 * 9 * l * l]
             ELSE [num |-> NaN, den |-> 1]]

\* Pixels with the same difference in the three channels: none, 12 (20 * 12 = 240),
\* 13 (20 * 13 = 260) and the largest, 255.
FlatPixels ==
    {[o |-> <<10, 10, 10>>, c |-> <<10, 10, 10>>],
     [o |-> <<10, 20, 30>>, c |-> <<22, 8, 42>>],
     [o |-> <<255, 200, 13>>, c |-> <<242, 213, 0>>],
     [o |-> <<0, 255, 0>>, c |-> <<255, 0, 255>>]}

\* One-pixel images: every value of the re-encoded red channel against three values of
\* the original one.
ChannelPixels ==
    {[o |-> <<a, 7, 90>>, c |-> <<b, 9, 90>>] : a \in {0, 128, 255}, b \in 0..255}

\* The images of the pixel check: every size up to MaxSide with the same pixel
\* everywhere or one pixel unlike the others, and the one-pixel images.
ELAImages ==
    {[width |-> w, height |-> h,
      data |-> [c \in Coordinates(w, h) |-> IF c = hot THEN q ELSE p]] :
        <<w, h, p, q, hot>> \in
            {z \in (1..MaxSide) \X (1..MaxSide) \X FlatPixels \X FlatPixels
                     \X ((0..(MaxSide - 1)) \X (0..(MaxSide - 1))) :
                z[5][1] < z[1] /\ z[5][2] < z[2]}}
    \cup {[width |-> 1, height |-> 1, data |-> [c \in Coordinates(1, 1) |-> p]] :
            p \in ChannelPixels}

InitELA ==
    /\ pix \in ELAImages
    /\ pres = <<>>
    /\ pPc = "input"
    /\ AggOff
    /\ ModOff
    /\ RunOff
    /\ UiOff

RunELAPixels ==
    /\ pPc = "input"
    /\ pres' = ELAPixels(pix.width, pix.height, pix.data)
    /\ pPc' = "done"
    /\ UNCHANGED <<pix, aggVars, modVars, runVars, uiVars>>

NextELA == RunELAPixels

SpecELA == InitELA /\ [][NextELA]_vars

\* C18: for every pixel, whatever its original and re-encoded channel values in 0..255,
\* the value that enters mean, variance and the region means is the average over R, G,
\* B of 20 times the absolute difference: 3 * val = 20 * (|dR| + |dG| + |dB|), also
\* when 20 times a difference is more than 255.
C18_Amplification ==
    pPc = "done" =>
        \A c \in Coordinates(pix.width, pix.height) :
            pres.val3[c] = 20 * (Abs(pix.data[c].o[1] - pix.data[c].c[1])
                                 + Abs(pix.data[c].o[2] - pix.data[c].c[2])
                                 + Abs(pix.data[c].o[3] - pix.data[c].c[3]))

\* C20: for every width and height from 1 on, every pixel is in exactly one of the four
\* regions, every region holds at least one pixel, so that its mean is a number, and
\* regionVariance is the variance of the four region means.
C20_RegionsPartition ==
    pPc = "done" =>
        /\ \A c \in Coordinates(pix.width, pix.height) :
               Cardinality({i \in 1..4 : c \in pres.regions[i]}) = 1
        /\ \A i \in 1..4 : pres.regionPixels[i] >= 1
        /\ pres.regionVariance.num # NaN

(***************************************************************************)
(* The pixel loops of analyzeNoise, analyzeEdges and analyzeTexture.  An   *)
(* image is [width, height, data], data the array of the pixels' <<R, G,   *)
(* B>> in the order of ImageData, counted from 1: pixel (x, y) at index    *)
(* y * width + x + 1.  Each operator returns the statistics the scoring    *)
(* rules above read, in their units.                                       *)
(***************************************************************************)

RECURSIVE SumRange(_, _, _)
\* The sum of f[lo], ..., f[hi], by halves.
SumRange(f, lo, hi) ==
    IF lo > hi THEN 0
    ELSE IF lo = hi THEN f[lo]
    ELSE LET mid == (lo + hi) \div 2 IN SumRange(f, lo, mid) + SumRange(f, mid + 1, hi)

\* The index of pixel (x, y) in the arrays of an image of width w.
PixelIndex(w, x, y) == y * w + x + 1

\* The indices of the pixels of an image of width w and height h.
Pixels(w, h) == 1..(w * h)

\* The array of length n that holds f[1], ..., f[n], each computed once.
ArrayOf(f, n) == SubSeq(f, 1, n)

\* The tiles a loop `for (v = 0; v < extent - size; v += size)` starts at.
TileStarts(extent, size) == {v \in 0..(extent - 1) : v % size = 0 /\ v < extent - size}

\* The k-th pixel (k in 1..size * size, row by row) of the size x size tile that starts
\* at (x, y).
TilePixel(w, x, y, size, k) == PixelIndex(w, x + ((k - 1) % size), y + ((k - 1) \div size))

\* n * n times the variance of the values f[1], ..., f[n]: the sum over the pairs
\* {u, v} of distinct values of count(u) * count(v) * (u - v)^2, which equals
\* n * sum(f^2) - sum(f)^2.
VarianceN2(f, n) ==
    LET vals == {f[k] : k \in 1..n}
        cnt == [v \in vals |-> Cardinality({k \in 1..n : f[k] = v})]
        pairs == {pr \in vals \X vals : pr[1] < pr[2]}
    IN  SumOver([pr \in pairs |-> cnt[pr[1]] * cnt[pr[2]] * (pr[2] - pr[1]) * (pr[2] - pr[1])],
                pairs)

\* n / d in units of 1 / u, rounded up: for a statistic the code tests with `>` against
\* a whole number of units, which the rounding leaves as it is.  0 / 0 is NaN.
RatioUp(n, d, u) ==
    IF d = 0 THEN NaN ELSE (u * n + d - 1) \div d

\* n / d in units of 1 / u, rounded down: for a statistic the code tests with `<`.
RatioDown(n, d, u) ==
    IF d = 0 THEN NaN ELSE (u * n) \div d

\* Noise analysis line 83
noiseRegionSize == 8

\* Noise analysis lines 86-87: the regions in the order the loops visit them.
NoiseRegions(im) ==
    LET nx == Cardinality(TileStarts(im.width, noiseRegionSize))
        ny == Cardinality(TileStarts(im.height, noiseRegionSize))
    IN  [k \in 1..(nx * ny) |->
            [x |-> ((k - 1) % nx) * noiseRegionSize, y |-> ((k - 1) \div nx) * noiseRegionSize]]

\* Noise analysis lines 88-118: count * count * variance of a region, variance being the
\* sum of the variances of R, G and B.
NoiseRegionVarianceN2(im, r) ==
    LET n == noiseRegionSize * noiseRegionSize
        px == ArrayOf([k \in 1..n |-> im.data[TilePixel(im.width, r.x, r.y, noiseRegionSize, k)]], n)
    IN  VarianceN2(ArrayOf([k \in 1..n |-> px[k][1]], n), n)
        + VarianceN2(ArrayOf([k \in 1..n |-> px[k][2]], n), n)
        + VarianceN2(ArrayOf([k \in 1..n |-> px[k][3]], n), n)

\* Noise analysis lines 138-144: 2 * noise of the sample at (rx, ry) of region r (the
\* red channel is the one read).
NoiseSample2(im, r, rx, ry) ==
    LET here == im.data[PixelIndex(im.width, r.x + rx, r.y + ry)][1]
    IN  Abs(here - im.data[PixelIndex(im.width, r.x + rx + 1, r.y + ry)][1])
        + Abs(here - im.data[PixelIndex(im.width, r.x + rx, r.y + ry + 1)][1])

\* Noise analysis lines 189-203 on the doubled samples s2.
PeriodicPatterns(s2) ==
    Cardinality({i \in 1..(Len(s2) - 8) :
        Cardinality({j \in 0..3 : Abs(s2[i + j] - s2[i + 4 + j]) < 4}) >= 3})

\* Noise analysis lines 83-211.  The coefficient of variation stands for its side of
\* the two thresholds: 0 when avgNoise is 0, 29 below 0.3, 201 above 2, else 100.
NoiseStats(im) ==
    LET regions == NoiseRegions(im)
        count2 == noiseRegionSize * noiseRegionSize * noiseRegionSize * noiseRegionSize
        rv == ArrayOf([k \in 1..Len(regions) |-> NoiseRegionVarianceN2(im, regions[k])],
                      Len(regions))
        flatIdx == SelectSeq([k \in 1..Len(regions) |-> k], LAMBDA k : rv[k] < 100 * count2)
        used == SubSeq(flatIdx, 1, Min(50, Len(flatIdx)))
        per == (noiseRegionSize - 1) * (noiseRegionSize - 1)
        s2 == ArrayOf([k \in 1..(per * Len(used)) |->
                          NoiseSample2(im, regions[used[((k - 1) \div per) + 1]],
                                       ((k - 1) % per) % (noiseRegionSize - 1),
                                       ((k - 1) % per) \div (noiseRegionSize - 1))],
                      per * Len(used))
        n == Len(s2)
        total2 == SumRange(s2, 1, n)
        var4n2 == VarianceN2(s2, n)
        tooFlat == Cardinality({k \in 1..Len(flatIdx) : rv[flatIdx[k]] < 5 * count2})
    IN  [avgNoise |-> IF n = 0 THEN 0
                      ELSE IF 10 * total2 > 150 * 2 * n THEN RatioUp(10 * total2, 2 * n, 1)
                      ELSE RatioDown(10 * total2, 2 * n, 1),
         coefficientOfVariation |->
             IF n = 0 \/ total2 = 0 THEN 0
             ELSE IF 100 * var4n2 < 9 * total2 * total2 THEN 29
             ELSE IF var4n2 > 4 * total2 * total2 THEN 201
             ELSE 100,
         periodicPatterns |-> PeriodicPatterns(s2),
         samples |-> n,
         flatRegions |-> Len(flatIdx),
         tooFlatRatio |->
             IF Len(flatIdx) > 0 THEN RatioUp(tooFlat, Len(flatIdx), 1000) ELSE 0]

\* ela.ts line 178 and texture_analysis.ts line 20: the gray value, times 1000.
Gray1000(px) == 299 * px[1] + 587 * px[2] + 114 * px[3]

\* ela.ts lines 196-197 and texture_analysis.ts lines 28-29: pixel i is off the border.
IsInterior(w, h, i) ==
    /\ 1 <= (i - 1) % w /\ (i - 1) % w <= w - 2
    /\ 1 <= (i - 1) \div w /\ (i - 1) \div w <= h - 2

\* ela.ts lines 182-186
sobelX == <<<<-1, 0, 1>>, <<-2, 0, 2>>, <<-1, 0, 1>>>>

\* ela.ts lines 187-191
sobelY == <<<<-1, -2, -1>>, <<0, 0, 0>>, <<1, 2, 1>>>>

\* ela.ts lines 202-208: the kernel applied at pixel i of gray.
Convolve(gray, w, i, kernel) ==
    LET term(kx, ky) == gray[i + ky * w + kx] * kernel[ky + 2][kx + 2]
    IN  term(-1, -1) + term(0, -1) + term(1, -1)
        + term(-1, 0) + term(0, 0) + term(1, 0)
        + term(-1, 1) + term(0, 1) + term(1, 1)

RECURSIVE SqrtUpIn(_, _, _)
\* The least k in lo..hi with k * k >= n.
SqrtUpIn(n, lo, hi) ==
    IF lo = hi THEN lo
    ELSE LET mid == (lo + hi) \div 2
         IN  IF mid * mid >= n THEN SqrtUpIn(n, lo, mid) ELSE SqrtUpIn(n, mid + 1, hi)

\* ela.ts line 210: Math.sqrt(gx * gx + gy * gy), exact when a gradient is 0 and
\* rounded up to the next thousandth otherwise, which keeps every `>` test.
Magnitude(gx, gy) ==
    IF gy = 0 THEN Abs(gx)
    ELSE IF gx = 0 THEN Abs(gy)
    ELSE SqrtUpIn(gx * gx + gy * gy, 0, 46340)

\* ela.ts line 211: Math.atan2(gy, gx) in units of pi / 4, for the gradients along the
\* axes and the diagonals (no other gradient occurs in the images of the check).
Atan2Eighths(gy, gx) ==
    CASE gy = 0 /\ gx >= 0 -> 0
      [] gy = 0 /\ gx < 0 -> 4
      [] gx = 0 /\ gy > 0 -> 2
      [] gx = 0 /\ gy < 0 -> -2
      [] gx > 0 /\ gy = gx -> 1
      [] gx > 0 /\ gy = -gx -> -1
      [] gx < 0 /\ gy = -gx -> 3
      [] gx < 0 /\ gy = gx -> -3

\* ela.ts lines 270-271 for two angles in units of pi / 4: their difference j * pi / 4
\* is below 0.5 for j = 0 alone and above pi - 0.5 from j = 4 on.
AngleSimilar(a, b) == Abs(a - b) = 0 \/ Abs(a - b) >= 4

\* ela.ts line 222, in thousandths
edgeThreshold == 50000

\* ela.ts line 223, in thousandths
strongThreshold == 150000

\* ela.ts line 294
edgeRegionSize == 20

\* ela.ts lines 265-268: the indices of the eight neighbours of pixel i.
Neighbours(w, i) ==
    {i + dy * w + dx : <<dx, dy>> \in ((-1..1) \X (-1..1)) \ {<<0, 0>>}}

\* ela.ts lines 256-284: coherentEdges.
CoherentEdges(im, edges, angles) ==
    Cardinality({i \in Pixels(im.width, im.height) :
        /\ IsInterior(im.width, im.height, i)
        /\ edges[i] > edgeThreshold
        /\ Cardinality({n \in Neighbours(im.width, i) :
                edges[n] > edgeThreshold /\ AngleSimilar(angles[n], angles[i])}) > 6})

\* ela.ts lines 300-306: regionEdgeCount of the region that starts at (x, y).
RegionEdgeCount(im, edges, x, y) ==
    Cardinality({k \in 1..(edgeRegionSize * edgeRegionSize) :
        edges[TilePixel(im.width, x, y, edgeRegionSize, k)] > edgeThreshold})

\* Mutant of SmoothRegions: the regions counted are those with 5 edge pixels or more.
SmoothRegions_Busy(im, edges) ==
    Cardinality({s \in TileStarts(im.width, edgeRegionSize)
                        \X TileStarts(im.height, edgeRegionSize) :
        RegionEdgeCount(im, edges, s[1], s[2]) >= 5})

\* ela.ts lines 293-313: smoothRegions.
SmoothRegions(im, edges) ==
    Cardinality({s \in TileStarts(im.width, edgeRegionSize)
                        \X TileStarts(im.height, edgeRegionSize) :
        RegionEdgeCount(im, edges, s[1], s[2]) < 5})

\* ela.ts lines 172-316.  edges in thousandths; edgeVariance rounded down.
EdgeStats(im) ==
    LET w == im.width
        h == im.height
        n == w * h
        gray == ArrayOf([i \in Pixels(w, h) |-> Gray1000(im.data[i])], n)
        gx == ArrayOf([i \in Pixels(w, h) |->
                          IF IsInterior(w, h, i) THEN Convolve(gray, w, i, sobelX) ELSE 0], n)
        gy == ArrayOf([i \in Pixels(w, h) |->
                          IF IsInterior(w, h, i) THEN Convolve(gray, w, i, sobelY) ELSE 0], n)
        edges == ArrayOf([i \in Pixels(w, h) |->
                             IF IsInterior(w, h, i) THEN Magnitude(gx[i], gy[i]) ELSE 0], n)
        angles == ArrayOf([i \in Pixels(w, h) |->
                              IF IsInterior(w, h, i) THEN Atan2Eighths(gy[i], gx[i]) ELSE 0], n)
        strong == Cardinality({i \in Pixels(w, h) : edges[i] > strongThreshold})
        weak == Cardinality({i \in Pixels(w, h) :
                                edges[i] <= strongThreshold /\ edges[i] > edgeThreshold})
        edgePixels == strong + weak
    IN  [strongEdges |-> strong,
         length |-> n,
         edgeVariance |->
             (VarianceN2(edges, n) \div (n * n)) \div 1000000,
         coherenceRatio |->
             IF edgePixels > 0 THEN RatioUp(CoherentEdges(im, edges, angles), edgePixels, 1000)
             ELSE 0,
         smoothRatio |->
             RatioUp(SmoothRegions(im, edges),
                     (w \div edgeRegionSize) * (h \div edgeRegionSize), 1000)]

\* texture_analysis.ts lines 34-43: the offsets of the eight neighbours, clockwise from
\* the top left.
lbpNeighbours ==
    <<<<-1, -1>>, <<0, -1>>, <<1, -1>>, <<1, 0>>, <<1, 1>>, <<0, 1>>, <<-1, 1>>, <<-1, 0>>>>

\* 1 << i for i in 0..8
Bit(i) == <<1, 2, 4, 8, 16, 32, 64, 128, 256>>[i + 1]

\* texture_analysis.ts lines 30-50: the pattern of pixel i.
LBPPattern(gray, w, i) ==
    SumRange([b \in 0..7 |->
                 IF gray[i + lbpNeighbours[b + 1][2] * w + lbpNeighbours[b + 1][1]] >= gray[i]
                 THEN Bit(b) ELSE 0], 0, 7)

\* texture_analysis.ts line 79
blockSize == 32

\* texture_analysis.ts line 130
testRegionSize == 16

\* texture_analysis.ts lines 83-95: the blocks in the order the loops push them.
TextureBlocks(im) ==
    LET nx == Cardinality(TileStarts(im.width, blockSize))
        ny == Cardinality(TileStarts(im.height, blockSize))
    IN  [k \in 1..(nx * ny) |->
            [x |-> ((k - 1) % nx) * blockSize, y |-> ((k - 1) \div nx) * blockSize]]

\* texture_analysis.ts lines 85-91: the patterns of the pixels of block b.
BlockPatterns(im, lbp, b) ==
    ArrayOf([k \in 1..(blockSize * blockSize) |->
                lbp[TilePixel(im.width, b.x, b.y, blockSize, k)]],
            blockSize * blockSize)

\* texture_analysis.ts lines 106-111: the similarity of the histograms of two blocks,
\* given the patterns of their pixels.
BlockSimilarity(pa, pb) ==
    LET n == blockSize * blockSize
        common == {pa[k] : k \in 1..n} \cap {pb[k] : k \in 1..n}
    IN  SumOver([v \in common |->
                    Min(Cardinality({k \in 1..n : pa[k] = v}),
                        Cardinality({k \in 1..n : pb[k] = v}))],
                common)

\* texture_analysis.ts lines 98-118: repetitiveBlocks.
RepetitiveBlocks(im, lbp, blocks) ==
    Cardinality({pr \in (1..Len(blocks)) \X (1..Len(blocks)) :
        /\ pr[1] < pr[2]
        /\ ~(Abs(blocks[pr[1]].x - blocks[pr[2]].x) <= blockSize
               /\ Abs(blocks[pr[1]].y - blocks[pr[2]].y) <= blockSize)
        /\ 10 * BlockSimilarity(BlockPatterns(im, lbp, blocks[pr[1]]),
                                BlockPatterns(im, lbp, blocks[pr[2]]))
              > 8 * blockSize * blockSize})

\* texture_analysis.ts lines 129-152: lowVarianceRegions.
LowVarianceRegions(im, lbp) ==
    LET n == testRegionSize * testRegionSize
    IN  Cardinality({s \in TileStarts(im.width, testRegionSize)
                            \X TileStarts(im.height, testRegionSize) :
            VarianceN2(ArrayOf([k \in 1..n |->
                                   lbp[TilePixel(im.width, s[1], s[2], testRegionSize, k)]], n), n)
                < 500 * n * n})

\* texture_analysis.ts lines 163-173: entropy / log2(256) in thousandths, for a
\* histogram whose k patterns are equally frequent, k a power of two (log2(k) / 8), and
\* for an empty one.  The entropy of any other histogram of at most 8 patterns is below
\* log2(8): 375 stands for it, on its side of the threshold 0.4 (no other histogram
\* occurs in the images of the check).
NormalizedEntropy(counts) ==
    LET k == Cardinality(DOMAIN counts)
        uniform == \A p, q \in DOMAIN counts : counts[p] = counts[q]
    IN  CASE k = 0 -> 0
          [] k > 0 /\ uniform /\ k \in {1, 2, 4, 8, 16, 32, 64, 128, 256} ->
                125 * (CHOOSE j \in 0..8 : Bit(j) = k)
          [] k > 0 /\ ~uniform /\ k <= 8 -> 375

\* texture_analysis.ts lines 17-173.  Ratios rounded up, in thousandths.
TextureStats(im) ==
    LET w == im.width
        h == im.height
        gray == ArrayOf([i \in Pixels(w, h) |-> Gray1000(im.data[i])], w * h)
        lbp == ArrayOf([i \in Pixels(w, h) |->
                           IF IsInterior(w, h, i) THEN LBPPattern(gray, w, i) ELSE 0], w * h)
        inner == {i \in Pixels(w, h) : IsInterior(w, h, i)}
        present == {lbp[i] : i \in inner}
        counts == [v \in present |-> Cardinality({i \in inner : lbp[i] = v})]
        totalLBP == Cardinality(inner)
        maxPatternCount ==
            IF present = {} THEN 0
            ELSE counts[CHOOSE v \in present : \A q \in present : counts[q] <= counts[v]]
        blocks == TextureBlocks(im)
        nb == Len(blocks)
    IN  [nonZeroPatterns |-> Cardinality(present),
         dominanceRatio |-> RatioUp(maxPatternCount, totalLBP, 1000),
         repetitionRatio |->
             IF nb > 0 THEN RatioUp(2 * RepetitiveBlocks(im, lbp, blocks), nb * (nb - 1), 1000)
             ELSE 0,
         smoothRatio |->
             RatioUp(LowVarianceRegions(im, lbp),
                     (w \div testRegionSize) * (h \div testRegionSize), 1000),
         normalizedEntropy |-> NormalizedEntropy(counts)]

(***************************************************************************)
(* Specification SpecSolid: analyzeNoise, analyzeEdges and analyzeTexture  *)
(* on images whose pixels all have the same colour.                        *)
(***************************************************************************)

\* The widths (and heights) of the solid images.
SolidSizes == {64}

\* The values each of R, G, B takes in the solid images.
SolidLevels == {0, 85, 170, 255}

SolidImages ==
    {[width |-> s, height |-> s, data |-> [i \in Pixels(s, s) |-> <<r, g, b>>]] :
        <<s, r, g, b>> \in SolidSizes \X SolidLevels \X SolidLevels \X SolidLevels}

InitSolid ==
    /\ pix \in SolidImages
    /\ pres = <<>>
    /\ pPc = "input"
    /\ AggOff
    /\ ModOff
    /\ RunOff
    /\ UiOff

\* The three modules run on the image, each from its pixel loops to its score.
RunPixelModules ==
    /\ pPc = "input"
    /\ pres' = LET ns == NoiseStats(pix)
                    es == EdgeStats(pix)
                    ts == TextureStats(pix)
                IN  [noise   |-> [stats |-> ns, score |-> NoiseScore(ns)],
                     edge    |-> [stats |-> es, score |-> EdgeScore(es)],
                     texture |-> [stats |-> ts, score |-> TextureScore(ts)]]
    /\ pPc' = "done"
    /\ UNCHANGED <<pix, aggVars, modVars, runVars, uiVars>>

NextSolid == RunPixelModules

SpecSolid == InitSolid /\ [][NextSolid]_vars

\* C16: for a 64x64 image whose pixels all have one colour, whatever the colour, the
\* noise score, the edge score and the texture score are each at least 0.5.
C16_SolidImage ==
    (pPc = "done" /\ pix.width = 64 /\ pix.height = 64) =>
        /\ pres.noise.score >= 50
        /\ pres.edge.score >= 50
        /\ pres.texture.score >= 50

\* A solid 64x64 image has run through the three modules: no noise sample differs from
\* 0, no pixel is an edge, one pattern fills the histogram.
C16_Witness ==
    /\ pPc = "done"
    /\ pix.width = 64
    /\ pix.height = 64
    /\ pix.data[1] = <<255, 0, 170>>
    /\ pres.noise.stats.samples = 2401
    /\ pres.noise.score = 100
    /\ pres.edge.stats.strongEdges = 0
    /\ pres.edge.score = 60
    /\ pres.texture.stats.nonZeroPatterns = 1
    /\ pres.texture.score = 100

(***************************************************************************)
(* Specification SpecSizes: analyzeNoise, analyzeEdges and analyzeTexture, *)
(* one at a time, on images of several widths and heights, of one colour   *)
(* or chequered.                                                           *)
(***************************************************************************)

\* The widths and the heights of the images.
ImageSides == {8, 20, 33, 40}

\* The image of width w and height h whose pixels are gray, or black and white in turn
\* along the rows and the columns.
SizedImage(w, h, kind) ==
    [width |-> w, height |-> h,
     data |-> [i \in Pixels(w, h) |->
                  IF kind = "solid" THEN <<128, 128, 128>>
                  ELSE IF (((i - 1) % w) + ((i - 1) \div w)) % 2 = 0 THEN <<0, 0, 0>>
                  ELSE <<255, 255, 255>>]]

SizedImages ==
    {SizedImage(w, h, kind) : <<w, h, kind>> \in ImageSides \X ImageSides \X {"solid", "chequered"}}

\* The modules whose pixel loops are modelled.
PixelLoops == {"noise", "edge", "texture"}

\* The statistics module m computes from the pixels of im.
PixelStats(m, im) ==
    CASE m = "noise" -> NoiseStats(im)
      [] m = "edge" -> EdgeStats(im)
      [] m = "texture" -> TextureStats(im)

InitSizes ==
    /\ pix \in SizedImages
    /\ pres = <<>>
    /\ pPc = "input"
    /\ AggOff
    /\ ModOff
    /\ RunOff
    /\ UiOff

\* Module m runs on the image, from its pixel loops to its score.
RunOn(m) ==
    /\ pPc = "input"
    /\ pres' = LET st == PixelStats(m, pix)
               IN  [stats |-> st, raw |-> ModuleRaw(m, st), score |-> ModuleScore(m, st)]
    /\ pPc' = m
    /\ UNCHANGED <<pix, aggVars, modVars, runVars, uiVars>>

NextSizes == \E m \in PixelLoops : RunOn(m)

SpecSizes == InitSizes /\ [][NextSizes]_vars

\* Every pixel of the image has the colour of the first.
IsSolid(im) == \A i \in Pixels(im.width, im.height) : im.data[i] = im.data[1]

\* The tiles of side size the loops `for (v = 0; v < extent - size; v += size)` evaluate
\* in an image of width w and height h.
EvaluatedTiles(w, h, size) == TileStarts(w, size) \X TileStarts(h, size)

\* C21: in the Edge module the denominator of the smooth ratio is the number of the
\* 20x20 tiles the scan evaluates, the ratio is a number in [0, 1], and an image of one
\* colour with at least one full tile has ratio 1 and receives the +0.3 smooth term.
C21_SmoothDenominator ==
    pPc = "edge" =>
        /\ (pix.width \div edgeRegionSize) * (pix.height \div edgeRegionSize)
              = Cardinality(EvaluatedTiles(pix.width, pix.height, edgeRegionSize))
        /\ pres.stats.smoothRatio \in 0..1000
        /\ (IsSolid(pix) /\ pix.width >= edgeRegionSize /\ pix.height >= edgeRegionSize) =>
              pres.stats.smoothRatio = 1000 /\ pres.raw >= 30

\* C22: the repetition ratio of the Texture module is a number in [0, 1], and it is 0
\* when the image has no 32x32 block or exactly one (no pair to compare).
C22_RepetitionRatio ==
    pPc = "texture" =>
        /\ pres.stats.repetitionRatio \in 0..1000
        /\ Len(TextureBlocks(pix)) <= 1 => pres.stats.repetitionRatio = 0

\* C29: when no 8x8 block has variance below 100 (as in every image of width or height
\* at most 8, where no block is evaluated), the Noise module takes no sample, avgNoise
\* and the coefficient of variation are 0 (noiseConsistency = 1 - 0), neither the
\* periodicity nor the very-flat term applies, and the score is exactly 0.8.
C29_NoFlatBlock ==
    /\ (pPc = "noise" /\ (pix.width <= noiseRegionSize \/ pix.height <= noiseRegionSize)) =>
          pres.stats.flatRegions = 0
    /\ (pPc = "noise" /\ pres.stats.flatRegions = 0) =>
          /\ pres.stats.samples = 0
          /\ pres.stats.avgNoise = 0
          /\ pres.stats.coefficientOfVariation = 0
          /\ pres.stats.periodicPatterns = 0
          /\ pres.stats.tooFlatRatio = 0
          /\ pres.raw = 80
          /\ pres.score = 80

\* The Noise module has run on a chequered 33x40 image: its 16 blocks were evaluated and
\* none is flat.
C29_Witness ==
    /\ pPc = "noise"
    /\ pix.width = 33
    /\ pix.height = 40
    /\ ~IsSolid(pix)
    /\ Len(NoiseRegions(pix)) = 16
    /\ pres.stats.flatRegions = 0
    /\ pres.score = 80

(***************************************************************************)
(* Specification SpecShift: the loop of analyzeFFT that fills the shifted  *)
(* magnitude array (fft.ts lines 91-106), one bin at a step.  The loop is  *)
(* run on grids smaller than the 512 x 512 of the source; size enters the  *)
(* loop through size / 2 alone.                                            *)
(***************************************************************************)

\* fft.ts line 6
size == 512

\* The grid sizes the loops of analyzeFFT are run at.
GridSizes == {16, 32}

\* Mutant of Shift: the bins are moved by a quarter of the grid.
Shift_Quarter(v, n) == (v + n \div 4) % n

\* fft.ts lines 99-100: yShift, xShift for a grid of n x n bins.
Shift(v, n) == (v + n \div 2) % n

\* fft.ts line 101: idx.
ShiftIndex(x, y, n) == Shift(y, n) * n + Shift(x, n)

\* fft.ts line 225: cornerSize.
CornerSize(n) == n \div 16

\* fft.ts lines 227-240: the bins <<x, y>> of the four corner blocks.
CornerBins(n) ==
    LET near == 0..(CornerSize(n) - 1)
        far == (n - CornerSize(n))..(n - 1)
    IN  (near \cup far) \X (near \cup far)

InitShift ==
    /\ pix \in {[size |-> n, written |-> [i \in 0..(n * n - 1) |-> 0]] : n \in GridSizes}
    /\ pres = [done |-> 0, last |-> -1]
    /\ pPc = "fill"
    /\ AggOff
    /\ ModOff
    /\ RunOff
    /\ UiOff

\* One pass of the body of the x loop (lines 93-104): the magnitude of bin (x, y) is
\* stored at idx.
FillBin ==
    /\ pPc = "fill"
    /\ pres.done < pix.size * pix.size
    /\ LET x == pres.done % pix.size
           y == pres.done \div pix.size
           idx == ShiftIndex(x, y, pix.size)
       IN  /\ pix' = [pix EXCEPT !.written[idx] = @ + 1]
           /\ pres' = [done |-> pres.done + 1, last |-> idx]
    /\ UNCHANGED <<pPc, aggVars, modVars, runVars, uiVars>>

\* The loops end (lines 105-106).
FillEnds ==
    /\ pPc = "fill"
    /\ pres.done = pix.size * pix.size
    /\ pPc' = "filled"
    /\ UNCHANGED <<pix, pres, aggVars, modVars, runVars, uiVars>>

NextShift == FillBin \/ FillEnds

SpecShift == InitShift /\ [][NextShift]_vars

\* The shift of the source's 512 x 512 grid: a bijection along each axis that sends bin
\* 0 to the centre and the Nyquist bin to 0, inside the corner block.
Shift512 ==
    /\ {Shift(v, size) : v \in 0..(size - 1)} = 0..(size - 1)
    /\ Shift(0, size) = size \div 2
    /\ ShiftIndex(size \div 2, size \div 2, size) = 0
    /\ <<0, 0>> \in CornerBins(size)

\* C25: the quadrant shift writes no slot of the shifted spectrum twice and, once the
\* loops have ended, has written every slot exactly once; the zero-frequency bin (0, 0)
\* goes to the centre (size/2, size/2) and the Nyquist bin (size/2, size/2) to (0, 0),
\* which lies in a corner block of side size/16.
C25_QuadrantShift ==
    /\ Shift512
    /\ pPc \in {"fill", "filled"} =>
          LET n == pix.size
              c == n \div 2
          IN  /\ \A i \in 0..(n * n - 1) : pix.written[i] <= 1
              /\ pPc = "filled" => \A i \in 0..(n * n - 1) : pix.written[i] = 1
              /\ pres.done = 1 => pres.last = c * n + c
              /\ pres.done = c * n + c + 1 => pres.last = 0
              /\ ShiftIndex(0, 0, n) = c * n + c
              /\ ShiftIndex(c, c, n) = 0
              /\ <<0, 0>> \in CornerBins(n)

\* The loops have ended on the 32 x 32 grid with every slot written.
C25_Witness ==
    /\ pPc = "filled"
    /\ pix.size = 32
    /\ pres.done = 1024
    /\ \A i \in 0..1023 : pix.written[i] = 1

(***************************************************************************)
(* Specification SpecSpectrum: the heuristics of analyzeFFT (fft.ts lines  *)
(* 124-245) on shifted magnitude spectra.  A spectrum is an array of       *)
(* magnitudes in hundredths, bin (x, y) at index y * n + x; the spectra    *)
(* have 32 x 32 bins, size entering the heuristics through size / 2,       *)
(* size / 4, size / 8 and size / 16.                                       *)
(***************************************************************************)

\* fft.ts line 143: dist * dist for bin i of a grid of n x n bins.
Dist2(i, n) ==
    LET dx == (i % n) - n \div 2
        dy == (i \div n) - n \div 2
    IN  dx * dx + dy * dy

\* Mutant of InBand: the mid band is tested without its else (line 149 as an if).
InBand_NoElse(band, d2, n) ==
    CASE band = "low" -> d2 <= (n \div 8) * (n \div 8)
      [] band = "mid" -> d2 <= (n \div 4) * (n \div 4)
      [] band = "high" -> d2 > (n \div 4) * (n \div 4)

\* fft.ts lines 129-131, 147-153: the band a bin at squared distance d2 is added to.
InBand(band, d2, n) ==
    CASE band = "low" -> d2 <= (n \div 8) * (n \div 8)
      [] band = "mid" -> d2 > (n \div 8) * (n \div 8) /\ d2 <= (n \div 4) * (n \div 4)
      [] band = "high" -> d2 > (n \div 4) * (n \div 4)

\* fft.ts lines 145-153: lowFreqEnergy, midFreqEnergy, highFreqEnergy.
BandEnergy(band, magnitude, n) ==
    SumRange([i \in 0..(n * n - 1) |-> IF InBand(band, Dist2(i, n), n) THEN magnitude[i] ELSE 0],
             0, n * n - 1)

\* fft.ts lines 234-240: cornerEnergy.
CornerEnergy(magnitude, n) ==
    SumOver([b \in CornerBins(n) |-> magnitude[b[2] * n + b[1]]], CornerBins(n))

\* fft.ts lines 135, 156-158: the indices of the peaks, in the order they are pushed.
Peaks(magnitude, n, maxMag) ==
    SelectSeq([k \in 1..(n * n) |-> k - 1],
              LAMBDA i : Dist2(i, n) > 25 /\ 10 * magnitude[i] > 7 * maxMag)

\* fft.ts lines 189-192: <<dx, dy>> of the peak at index i.
Offset(i, n) == <<(i % n) - n \div 2, (i \div n) - n \div 2>>

\* fft.ts line 195: the peaks at p and q lie on opposite sides of the centre.
Symmetric(p, q) == Abs(p[1] + q[1]) < 5 /\ Abs(p[2] + q[2]) < 5

\* fft.ts lines 200-209.  |s1 - s2| < 0.1 * s1 is 0.81 * s1^2 < s2^2 < 1.21 * s1^2, and
\* the angle between p and q is within 0.2 of a multiple of pi / 2 when |sin| of twice
\* the angle, 2 * |p x q| * |p . q| / (s1^2 * s2^2), is below sin(0.4) = 0.389.
GridAligned(p, q) ==
    LET q1 == p[1] * p[1] + p[2] * p[2]
        q2 == q[1] * q[1] + q[2] * q[2]
        cross == p[1] * q[2] - p[2] * q[1]
        dot == p[1] * q[1] + p[2] * q[2]
    IN  /\ 81 * q1 < 100 * q2
        /\ 100 * q2 < 121 * q1
        /\ 2000 * Abs(cross) * Abs(dot) < 389 * q1 * q2

\* fft.ts lines 185-214: gridPatterns.length for the peaks at the indices of peaks.
GridPatterns(peaks, n) ==
    LET pairs == {pr \in (1..Len(peaks)) \X (1..Len(peaks)) : pr[1] < pr[2]}
    IN  SumOver([pr \in pairs |->
                    (IF Symmetric(Offset(peaks[pr[1]], n), Offset(peaks[pr[2]], n))
                     THEN 1 ELSE 0)
                    + (IF GridAligned(Offset(peaks[pr[1]], n), Offset(peaks[pr[2]], n))
                       THEN 1 ELSE 0)],
                pairs)

\* fft.ts lines 89-104, 124-242.  The ratios stand for their sides of the thresholds:
\* lowFreqRatio is 951 above 0.95, 699 below 0.7 and 800 between, highFreqRatio 151
\* above 0.15 and 150 otherwise, cornerRatio 51 above 0.05 and 50 otherwise; each is NaN
\* when totalEnergy is 0.
SpectrumStats(magnitude, n) ==
    LET maxMag == CHOOSE m \in {magnitude[i] : i \in 0..(n * n - 1)} \cup {0} :
                      \A i \in 0..(n * n - 1) : magnitude[i] <= m
        total == SumRange(magnitude, 0, n * n - 1)
        low == BandEnergy("low", magnitude, n)
        mid == BandEnergy("mid", magnitude, n)
        high == BandEnergy("high", magnitude, n)
        corner == CornerEnergy(magnitude, n)
        peaks == Peaks(magnitude, n, maxMag)
    IN  [totalEnergy |-> total, lowFreqEnergy |-> low, midFreqEnergy |-> mid,
         highFreqEnergy |-> high, cornerEnergy |-> corner, peaks |-> peaks,
         lowFreqRatio |-> IF total = 0 THEN NaN
                          ELSE IF 100 * low > 95 * total THEN 951
                          ELSE IF 10 * low < 7 * total THEN 699 ELSE 800,
         highFreqRatio |-> IF total = 0 THEN NaN
                           ELSE IF 100 * high > 15 * total THEN 151 ELSE 150,
         gridPatterns |-> GridPatterns(peaks, n),
         cornerRatio |-> IF total = 0 THEN NaN
                         ELSE IF 100 * corner > 5 * total THEN 51 ELSE 50]

\* The offsets from the centre of the peaks a spectrum of the check may have.  The
\* magnitude spectrum of a real image is point-symmetric: but for the Nyquist bin, a
\* peak comes with its mirror image.
PeakGroups ==
    {{<<6, 0>>, <<-6, 0>>}, {<<0, 6>>, <<0, -6>>}, {<<12, 0>>, <<-12, 0>>},
     {<<6, 6>>, <<-6, -6>>}, {<<-16, -16>>}}

\* The magnitudes of the bins that are no peak: everywhere, and near the centre.
FloorLevels == {0, 100, 500}
CentreLevels == {1000, 1800}

\* The spectrum with the given levels and the peaks of groups.
Spectrum(n, floor, centre, groups) ==
    [i \in 0..(n * n - 1) |->
        IF Offset(i, n) \in UNION groups THEN 1500
        ELSE IF Dist2(i, n) <= 4 THEN centre
        ELSE floor]

InitSpectrum ==
    /\ pix \in {[size |-> 32, magnitude |-> Spectrum(32, fl, ce, gs)] :
                  <<fl, ce, gs>> \in FloorLevels \X CentreLevels \X SUBSET PeakGroups}
    /\ pres = <<>>
    /\ pPc = "input"
    /\ AggOff
    /\ ModOff
    /\ RunOff
    /\ UiOff

\* The heuristics run on the spectrum, from the band energies to the score.
RunHeuristics ==
    /\ pPc = "input"
    /\ pres' = LET st == SpectrumStats(pix.magnitude, pix.size)
               IN  [stats |-> st, raw |-> FFTRaw(st), score |-> FFTScore(st)]
    /\ pPc' = "done"
    /\ UNCHANGED <<pix, aggVars, modVars, runVars, uiVars>>

NextSpectrum == RunHeuristics

SpecSpectrum == InitSpectrum /\ [][NextSpectrum]_vars

\* The pairs of peaks that are point-symmetric or grid-aligned.
PeakPairs(peaks, n) ==
    {pr \in (1..Len(peaks)) \X (1..Len(peaks)) :
        /\ pr[1] < pr[2]
        /\ \/ Symmetric(Offset(peaks[pr[1]], n), Offset(peaks[pr[2]], n))
           \/ GridAligned(Offset(peaks[pr[1]], n), Offset(peaks[pr[2]], n))}

\* C23: the number the grid-pattern thresholds are applied to is the number of distinct
\* unordered pairs of peaks that are point-symmetric or grid-aligned, a pair counting
\* once also when it passes both tests.
C23_PeakPairCount ==
    pPc = "done" =>
        pres.stats.gridPatterns = Cardinality(PeakPairs(pres.stats.peaks, pix.size))

\* The corner blocks of the source's 512 x 512 grid lie in the high band.
CornersHigh512 == \A b \in CornerBins(size) : InBand("high", Dist2(b[2] * size + b[1], size), size)

\* C28: the low, mid and high energies are non-negative and add up to the total energy,
\* the corner blocks lie in the high band (corner energy is part of the high energy),
\* and the over-smoothed term never comes with the high-frequency or the corner term.
C28_BandAccounting ==
    /\ CornersHigh512
    /\ pPc = "done" =>
          LET st == pres.stats
          IN  /\ st.lowFreqEnergy >= 0 /\ st.midFreqEnergy >= 0 /\ st.highFreqEnergy >= 0
              /\ st.lowFreqEnergy + st.midFreqEnergy + st.highFreqEnergy = st.totalEnergy
              /\ \A b \in CornerBins(pix.size) :
                    InBand("high", Dist2(b[2] * pix.size + b[1], pix.size), pix.size)
              /\ st.cornerEnergy <= st.highFreqEnergy
              /\ ~(Gt(st.lowFreqRatio, 950) /\ Gt(st.highFreqRatio, 150))
              /\ ~(Gt(st.lowFreqRatio, 950) /\ Gt(st.cornerRatio, 50))

\* The heuristics have run on a spectrum whose energy lies near the centre: the
\* over-smoothed term applied, the other two did not.
C28_Witness ==
    /\ pPc = "done"
    /\ Gt(pres.stats.lowFreqRatio, 950)
    /\ pres.stats.highFreqEnergy = 0
    /\ pres.raw = 50

(***************************************************************************)
(* Specification SpecAngles: the orientation test of analyzeEdges (ela.ts  *)
(* lines 270-271) on the angles of an edge pixel and of one neighbour,     *)
(* both above the magnitude threshold.                                     *)
(***************************************************************************)

\* The values of Math.atan2 in (-pi, pi] that are multiples of pi / 4, in units of
\* pi / 4.
EdgeAngles == -3..4

InitAngles ==
    /\ pix \in [angle : EdgeAngles, neighbour : EdgeAngles]
    /\ pres = <<>>
    /\ pPc = "input"
    /\ AggOff
    /\ ModOff
    /\ RunOff
    /\ UiOff

\* Lines 270-273: the neighbour is tested and, if similar, counted.
TestNeighbour ==
    /\ pPc = "input"
    /\ pres' = [similarNeighbors |-> IF AngleSimilar(pix.neighbour, pix.angle) THEN 1 ELSE 0]
    /\ pPc' = "tested"
    /\ UNCHANGED <<pix, aggVars, modVars, runVars, uiVars>>

NextAngles == TestNeighbour

SpecAngles == InitAngles /\ [][NextAngles]_vars

\* The distance of two angles on a half-turn, all in units of pi / 4: the difference
\* reduced modulo pi, or pi minus it if that is less.
HalfTurnDistance(a, b) == Min(Abs(a - b) % 4, 4 - (Abs(a - b) % 4))

\* C24: a neighbour above the magnitude threshold is counted as agreeing exactly when
\* the difference of the two orientations, reduced modulo pi, is below 0.5 rad (of the
\* multiples of pi / 4: when it is 0).
C24_OrientationModPi ==
    pPc = "tested" =>
        (pres.similarNeighbors = 1 <=> HalfTurnDistance(pix.angle, pix.neighbour) = 0)

(***************************************************************************)
(* Claims about the scoring rules (checked under SpecModules).             *)
(***************************************************************************)

\* The text of the comment tag holds one of the three markers.
TextHasMarker(text) ==
    \/ Includes(text, <<"s", "t", "e", "p", "s", ":">>)
    \/ Includes(text, <<"s", "e", "e", "d", ":">>)
    \/ Includes(text, <<"c", "f", "g", ":">>)

\* C13: whenever the comment tag of a file holds at least one of the markers "steps:",
\* "seed:", "cfg:", the metadata score before the clamp is the software term and the
\* dimension terms plus exactly 0.8, however many markers there are; with no marker in
\* the comment it is those terms plus 0.
C13_CommentMarkers ==
    (mPc = "done" /\ mod = "metadata" /\ inp.exifPresent) =>
        mres.raw = SoftwareTerm(inp) + ResolutionTerm(inp) + SquareTerm(inp)
                   + (IF TextHasMarker(inp.comment.text) THEN 80 ELSE 0)

\* C15: without tags the tag part of the metadata score is exactly 0.3; with tags and
\* no software tag the software adds nothing; a software tag holding one of the four
\* listed names, in that case of letters, adds 0.4 and no other does; no term is
\* negative and the score is min(1, sum).
C15_TagTerms ==
    (mPc = "done" /\ mod = "metadata") =>
        LET tagPart == mres.raw - ResolutionTerm(inp) - SquareTerm(inp)
        IN  /\ ~inp.exifPresent => tagPart = 30
            /\ (inp.exifPresent /\ inp.software = <<>>) => tagPart \in {0, 80}
            /\ (inp.exifPresent /\ inp.software = <<>> /\ inp.comment = NoComment)
                   => tagPart = 0
            /\ (inp.exifPresent /\ inp.software = <<"G", "I", "M", "P">>)
                   => tagPart \in {40, 120}
            /\ (inp.exifPresent /\ inp.software = <<"g", "i", "m", "p">>)
                   => tagPart \in {0, 80}
            /\ tagPart >= 0
            /\ mres.raw >= 0
            /\ mres.score = (IF mres.raw > 100 THEN 100 ELSE mres.raw)

\* A listed software name and a comment with a marker: 0.4 + 0.8, returned as 1.
C15_Witness ==
    /\ mPc = "done"
    /\ mod = "metadata"
    /\ inp.software = <<"G", "I", "M", "P">>
    /\ inp.comment.type = "string"
    /\ inp.width = 0
    /\ mres.raw = 120
    /\ mres.score = 100

\* C17: the ELA score is the sum of the four terms of the table (regional variance,
\* mean, variance, coefficient of variation with CV = 0 for mean 0) clamped to [0,1]; a
\* negative sum gives 0 and a mean of 0 gives exactly 1.
C17_ELATable ==
    (mPc = "done" /\ mod = "ela") =>
        LET rv == inp.regionVariance
            m  == inp.mean
            v  == inp.variance
            regionTerm == IF rv # NaN /\ rv < 50 THEN 30 ELSE 0
            meanTerm == IF m < 10 THEN 90 ELSE IF m < 20 THEN 60 ELSE IF m < 35 THEN 30 ELSE 0
            varTerm == IF v < 100 THEN 60 ELSE IF v < 300 THEN 40
                       ELSE IF v > 1200 THEN -30 ELSE 0
            \* CV < 3/10 and 1/2 < CV < 3/2, squared (CV = 0 when m = 0)
            cvLow == m = 0 \/ 100 * v < 9 * m * m
            cvMid == m > 0 /\ 4 * v > m * m /\ 4 * v < 9 * m * m
            cvTerm == IF cvLow THEN 40 ELSE IF cvMid THEN -20 ELSE 0
            sum == regionTerm + meanTerm + varTerm + cvTerm
        IN  /\ mres.raw = sum
            /\ mres.score = (IF sum < 0 THEN 0 ELSE IF sum > 100 THEN 100 ELSE sum)
            /\ m = 0 => mres.score = 100

\* An image equal to its re-encoded copy, wide enough for four quadrants: every term
\* of the table is at its highest and the score is 1.
C17_Witness ==
    /\ mPc = "done"
    /\ mod = "ela"
    /\ inp.mean = 0
    /\ inp.variance = 0
    /\ inp.regionVariance = 0
    /\ mres.raw = 220
    /\ mres.score = 100

(***************************************************************************)
(* Claims about the aggregation (checked under SpecAgg).                   *)
(***************************************************************************)

MinScore(s) == CHOOSE v \in {s[k] : k \in Modules} : \A k \in Modules : v <= s[k]

MaxScore(s) == CHOOSE v \in {s[k] : k \in Modules} : \A k \in Modules : v >= s[k]

\* The sum of |score - 0.5| over the seven modules, in hundredths.
SumDistance(s) == SumValues([k \in Modules |-> Abs(s[k] - 50)])

C3_ThresholdVerdict ==
    aggPc = "done" =>
        LET o == agg.overallScore
            v == agg.thresholdVerdict
        IN  /\ v = "Likely AI" <=> 100 * o.num > 65 * o.den
            /\ v = "Suspicious" <=> (100 * o.num > 40 * o.den /\ 100 * o.num <= 65 * o.den)
            /\ v = "Likely Real" <=> 100 * o.num <= 40 * o.den

\* overallScore is exactly 0.65 and the verdict is Suspicious.
C3_Witness ==
    /\ aggPc = "done"
    /\ 100 * agg.overallScore.num = 65 * agg.overallScore.den
    /\ agg.thresholdVerdict = "Suspicious"

\* C4: the final verdict is Likely AI exactly when overallScore > 0.65 and
\* confidence >= 0.3; with overallScore > 0.65 and confidence < 0.3 it is Suspicious;
\* a Suspicious or Likely Real verdict is never changed.
C4_DowngradeRule ==
    aggPc = "done" =>
        LET o    == agg.overallScore
            c    == agg.confidence
            high == 100 * o.num > 65 * o.den
            low  == 10 * c.num < 3 * c.den
        IN  /\ agg.verdict = "Likely AI" <=> (high /\ ~low)
            /\ (high /\ low) => agg.verdict = "Suspicious"
            /\ agg.thresholdVerdict # "Likely AI" => agg.verdict = agg.thresholdVerdict
            /\ ~(agg.verdict = "Likely AI" /\ low)

\* A run whose overallScore is above 0.65 and whose confidence is below 0.3.
C4_Witness ==
    /\ aggPc = "done"
    /\ 100 * agg.overallScore.num > 65 * agg.overallScore.den
    /\ 10 * agg.confidence.num < 3 * agg.confidence.den
    /\ agg.verdict = "Suspicious"

\* C5: confidence = 0.6 * agreement + 0.4 * avgConfidence, agreement being the number of
\* modules with |score - overallScore| < 0.3 over 7 and avgConfidence the mean of
\* 2 * |score - 0.5|; both parts and the confidence lie in [0,1].
C5_Confidence ==
    aggPc = "done" =>
        LET o == agg.overallScore
            c == agg.confidence
            n == Cardinality({k \in Modules :
                     10 * Abs(scores[k] * o.den - 100 * o.num) < 3 * 100 * o.den})
            d == SumDistance(scores)
        IN  /\ agg.agreeing = n
            /\ 0 <= n /\ n <= 7
            /\ 0 <= 2 * d /\ 2 * d <= 7 * 100
            /\ c.num * 7000 = (600 * n + 8 * d) * c.den
            /\ 0 <= c.num /\ c.num <= c.den

\* Some module is exactly 0.3 away from overallScore (and so does not count as agreeing)
\* while other modules agree.
C5_Witness ==
    /\ aggPc = "done"
    /\ \E k \in Modules :
          10 * Abs(scores[k] * agg.overallScore.den - 100 * agg.overallScore.num)
              = 3 * 100 * agg.overallScore.den
    /\ agg.agreeing > 0
    /\ agg.agreeing < 7
    /\ SumDistance(scores) > 0

PreNormalized(k) ==
    IF agg.totalConfidence > 0 THEN agg.adjustedWeights.num[k]
    ELSE 100 * agg.adjustedWeights.num[k]

\* C7: the adjusted weight before renormalization is baseWeight * (1 + 0.5 * confidence)
\* with confidence = 2 * |score - 0.5|, hence in [baseWeight, 1.5 * baseWeight]; after
\* renormalization finalWeight / baseWeight of a module is at least that of any module
\* whose score is no farther from 0.5, and every final weight lies in
\* [baseWeight / 1.5, 1.5 * baseWeight].
C7_WeightAdjustment ==
    aggPc = "done" =>
        LET w == agg.adjustedWeights
        IN  /\ \A k \in Modules :
                  /\ PreNormalized(k) = weights[k] * (100 + Abs(scores[k] - 50))
                  /\ 100 * weights[k] <= PreNormalized(k)
                  /\ PreNormalized(k) <= 150 * weights[k]
                  /\ 2 * weights[k] * w.den <= 300 * w.num[k]
                  /\ 200 * w.num[k] <= 3 * weights[k] * w.den
            /\ \A j, k \in Modules :
                  Abs(scores[j] - 50) <= Abs(scores[k] - 50)
                      => w.num[k] * weights[j] >= w.num[j] * weights[k]

\* The weights were adjusted, one module sits at 0.5 and another at 0 or 1, and the
\* second one's share of its base weight is strictly larger.
C7_Witness ==
    /\ aggPc = "done"
    /\ agg.totalConfidence > 0
    /\ \E j, k \in Modules :
          /\ scores[j] = 50
          /\ scores[k] \in {0, 100}
          /\ agg.adjustedWeights.num[k] * weights[j] > agg.adjustedWeights.num[j] * weights[k]
          /\ 100 * agg.adjustedWeights.num[k] > weights[k] * agg.adjustedWeights.den
          /\ 100 * agg.adjustedWeights.num[j] < weights[j] * agg.adjustedWeights.den

RECURSIVE FracLeq(_, _, _, _)
\* a / b <= c / d for a, c >= 0 and b, d > 0, by the whole parts and then the
\* remainders (no product is formed).
FracLeq(a, b, c, d) ==
    IF a \div b # c \div d THEN a \div b < c \div d
    ELSE IF a % b = 0 THEN TRUE
    ELSE IF c % d = 0 THEN FALSE
    ELSE FracLeq(d, c % d, b, a % b)

\* The values one module score is raised to.
RaisedScores == {10 * i : i \in 0..10} \cup {35, 65}

\* The score vectors equal to s but for one module, whose score is larger.
Raised(s) ==
    {[s EXCEPT ![k] = v] : <<k, v>> \in {kv \in Modules \X RaisedScores : kv[2] > s[kv[1]]}}

\* Likely Real < Suspicious < Likely AI.
VerdictRank(v) ==
    CASE v = "Likely Real" -> 0
      [] v = "Suspicious" -> 1
      [] v = "Likely AI" -> 2

\* C26: raising the score of one module, the other six unchanged, never lowers
\* overallScore.
C26_OverallMonotone ==
    aggPc = "done" =>
        \A s2 \in Raised(scores) :
            LET o2 == Aggregate(s2).overallScore
            IN  FracLeq(agg.overallScore.num, agg.overallScore.den, o2.num, o2.den)

\* The aggregation has run on scores of which one, below 0.5, can be raised to 0.5:
\* the module loses its boost and overallScore still grows.
C26_Witness ==
    /\ aggPc = "done"
    /\ agg.totalConfidence > 0
    /\ \E k \in Modules :
          /\ scores[k] = 30
          /\ LET o2 == Aggregate([scores EXCEPT ![k] = 50]).overallScore
             IN  ~FracLeq(o2.num, o2.den, agg.overallScore.num, agg.overallScore.den)

\* C27: raising the score of one module, the other six unchanged, never lowers the
\* final verdict (after the downgrade rule) in the order Likely Real < Suspicious <
\* Likely AI.
C27_VerdictMonotone ==
    aggPc = "done" =>
        \A s2 \in Raised(scores) :
            VerdictRank(agg.verdict) <= VerdictRank(Aggregate(s2).verdict)

(***************************************************************************)
(* Claims about analyzeImage as a process (checked under Spec).            *)
(***************************************************************************)

ModuleKeys == {"metadata", "ela", "fft", "color", "edge", "noise", "texture"}

\* The result of a call on file f whose modules run one after the other, in the order
\* of lines 16-22, on their own.
SequentialResult(f) ==
    LET im == Decode(f)
        o  == [m \in Modules |-> ModuleResult(m, f, im)]
        a  == Aggregate([m \in Modules |-> o[m].score])
    IN  [modules |-> o, overallScore |-> a.overallScore, confidence |-> a.confidence,
         verdict |-> a.verdict]

C9_OrderIndependence ==
    /\ result # NoResult => AllResolved(task)
    /\ pc \in {"modules", "resolved"} => img = Decode(file)
    /\ pc = "resolved" =>
          LET r == SequentialResult(file)
          IN  /\ \A m \in ModuleKeys : result[m] = r.modules[m]
              /\ result.overallScore = r.overallScore
              /\ result.confidence = r.confidence
              /\ result.verdict = r.verdict

\* The call resolved with the promise of the last module of the list, texture, having
\* resolved first, for a file whose edge and noise results differ.
C9_Witness ==
    /\ pc = "resolved"
    /\ firstDone = "texture"
    /\ result.edge # result.noise

\* C10: a call either resolves with a result holding all seven module results,
\* overallScore, confidence and verdict, or rejects and leaves no result; a decode
\* failure rejects before any module is started, and one rejected module rejects the
\* call whatever the other six did.
C10_AllOrNothing ==
    /\ pc = "rejected" => result = NoResult
    /\ pc = "resolved" =>
          /\ DOMAIN result = ModuleKeys \cup {"fileName", "dimensions", "mimeType",
                                              "overallScore", "confidence", "verdict"}
          /\ \A m \in ModuleKeys : result[m] # NoOut /\ result[m].score \in 0..100
          /\ result.verdict \in {"Likely Real", "Suspicious", "Likely AI"}
          /\ result.overallScore.den > 0 /\ result.confidence.den > 0
    /\ result # NoResult => (pc \in {"resolved", "idle"} /\ ~Rejects(task))
    /\ (pc # "idle" /\ ~file.decodable) => \A m \in Modules : task[m] = "idle"
    /\ (pc = "rejected" /\ ~file.decodable) => img = NoImage
    /\ (\E m \in Modules : task[m] = "failed") =>
          (pc \in {"rejected", "idle"} /\ result = NoResult)

\* One module promise rejected, the other six resolved, and the call is rejected
\* without a result.
C10_Witness ==
    /\ pc = "rejected"
    /\ Cardinality({m \in Modules : task[m] = "done"}) = 6
    /\ Cardinality({m \in Modules : task[m] = "failed"}) = 1
    /\ result = NoResult

\* C11: every call of analyzeImage that has started settles: whatever the file read, the
\* decoding, the tag extraction and the re-load of the re-encoded JPEG do, the promise
\* of the call resolves or rejects in the end.
C11_RunToCompletion ==
    (pc = "reading") ~> (pc \in {"resolved", "rejected"})

\* The file f with no tags embedded in it.
Tagless(f) == [f EXCEPT !.tags = NoTags, !.exifReadable = TRUE]

\* C12: when the tag extraction has failed, the promise of analyzeMetadata has resolved,
\* with the result a file without embedded tags gets: exifPresent false and the 0.3 of
\* the no-metadata term, nothing for software or comment.
C12_ExtractionFailure ==
    extraction = "failed" =>
        /\ task["metadata"] = "done"
        /\ out["metadata"] = ModuleResult("metadata", Tagless(file), img)
        /\ ~out["metadata"].exifPresent
        /\ "no exif" \in out["metadata"].details

\* C14: the metadata module adds the 0.2 of the resolution term exactly when the decoded
\* image has one of the six listed sizes or its double, and the 0.1 of the square term
\* exactly when the image is square and wider than 256, the size being that of the
\* image analysed (the one reported in dimensions).
C14_DimensionTerms ==
    (task["metadata"] = "done" /\ img # NoImage) =>
        /\ "resolution" \in out["metadata"].details
               <=> isSuspiciousRes(img.width, img.height)
        /\ "square" \in out["metadata"].details
               <=> (img.width = img.height /\ img.width > 256)


(***************************************************************************)
(* Specification SpecUI: the page component Home.  The user selects files  *)
(* in ImageUpload and resets the dashboard; each run of handleImageSelect  *)
(* waits for its delay, then for analyzeImage.                             *)
(***************************************************************************)

\* The calls of handleImageSelect of a behaviour, in the order they were made.
Runs == 1..MaxRuns

\* A call of handleImageSelect that has started and not reached its finally block.
InFlight(r) == uiPc[r] \in {"delay", "analyzing", "stalled"}

\* Mutant of UploadEnabled: an ImageUpload that ignores its isAnalyzing prop.
UploadEnabled_Ungated == shown = NoResult

\* ImageUpload is mounted while result is null (page line 37), and while isAnalyzing it
\* takes no pointer event and its input is disabled (ImageUpload, className and
\* disabled): handleDrop and handleFileInput can call onImageSelect in no other state.
UploadEnabled == shown = NoResult /\ ~isAnalyzing

\* AnalysisDashboard, and with it the button of onReset, is mounted while result is not
\* null (page lines 37, 52).
DashboardMounted == shown # NoResult

\* The ways analyzeImage(f) can end: it resolves when the file decodes and every module
\* promise resolves, it rejects when the file does not decode or a pixel module
\* rejects, and it stays pending when a module promise of a decoded file does.
AnalyzeImageOutcomes(f) ==
    {"rejected"} \cup (IF f.decodable THEN {"resolved", "pending"} ELSE {})

\* Mutant of FinallyAnalyzing: no finally block, isAnalyzing is left as it is.
FinallyAnalyzing_Skipped == isAnalyzing

\* Page line 25: the value the finally block sets isAnalyzing to.
FinallyAnalyzing == FALSE

InitUI ==
    /\ isAnalyzing = FALSE
    /\ shown = NoResult
    /\ shownBy = 0
    /\ uiPc = [r \in Runs |-> "unstarted"]
    /\ uiFile = [r \in Runs |-> NoFile]
    /\ alerts = 0
    /\ uiRuns = 0
    /\ AggOff
    /\ ModOff
    /\ RunOff
    /\ PixOff

\* handleImageSelect(f) runs to its first await (page lines 15-18).  The function
\* itself tests nothing: whether it can be called is up to ImageUpload.
HandleImageSelect(f) ==
    /\ uiRuns < MaxRuns
    /\ uiRuns' = uiRuns + 1
    /\ isAnalyzing' = TRUE
    /\ uiFile' = [uiFile EXCEPT ![uiRuns + 1] = f]
    /\ uiPc' = [uiPc EXCEPT ![uiRuns + 1] = "delay"]
    /\ UNCHANGED <<shown, shownBy, alerts, aggVars, modVars, runVars, pixVars>>

\* handleDrop of ImageUpload: a dropped file of an image type goes to onImageSelect
\* (the other branch sets the error text of ImageUpload alone).
HandleDrop(f) ==
    /\ UploadEnabled
    /\ f.mimeType \in {"image/png", "image/jpeg"}
    /\ HandleImageSelect(f)

\* The files the dialog of the input can return: `accept` filters what the dialog
\* lists, the user can still pick a file of any type.
ChosenFiles ==
    Files \cup {[name |-> "notes.txt", mimeType |-> "text/plain", decodable |-> FALSE,
                 exifReadable |-> FALSE,
                 width |-> 0, height |-> 0, tags |-> NoTags, stats |-> <<>>]}

\* handleFileInput of ImageUpload: the file chosen in the dialog goes to onImageSelect,
\* whatever its type.
HandleFileInput(f) ==
    /\ UploadEnabled
    /\ HandleImageSelect(f)

\* The timer of line 18 fires; analyzeImage(file) is called and awaited (line 19).
DelayElapses(r) ==
    /\ uiPc[r] = "delay"
    /\ uiPc' = [uiPc EXCEPT ![r] = "analyzing"]
    /\ UNCHANGED <<isAnalyzing, shown, shownBy, uiFile, alerts, uiRuns,
                   aggVars, modVars, runVars, pixVars>>

\* analyzeImage resolves: setResult, then the finally block (lines 19-20, 24-26).
AnalysisResolves(r) ==
    /\ uiPc[r] = "analyzing"
    /\ "resolved" \in AnalyzeImageOutcomes(uiFile[r])
    /\ shown' = SequentialResult(uiFile[r])
    /\ shownBy' = r
    /\ isAnalyzing' = FinallyAnalyzing
    /\ uiPc' = [uiPc EXCEPT ![r] = "resolved"]
    /\ UNCHANGED <<uiFile, alerts, uiRuns, aggVars, modVars, runVars, pixVars>>

\* analyzeImage rejects: the catch block logs and alerts, then the finally block (lines
\* 21-26).
AnalysisRejects(r) ==
    /\ uiPc[r] = "analyzing"
    /\ "rejected" \in AnalyzeImageOutcomes(uiFile[r])
    /\ alerts' = alerts + 1
    /\ isAnalyzing' = FinallyAnalyzing
    /\ uiPc' = [uiPc EXCEPT ![r] = "rejected"]
    /\ UNCHANGED <<shown, shownBy, uiFile, uiRuns, aggVars, modVars, runVars, pixVars>>

\* The promise of analyzeImage will never settle: the run stays at line 19.
AnalysisStalls(r) ==
    /\ uiPc[r] = "analyzing"
    /\ "pending" \in AnalyzeImageOutcomes(uiFile[r])
    /\ uiPc' = [uiPc EXCEPT ![r] = "stalled"]
    /\ UNCHANGED <<isAnalyzing, shown, shownBy, uiFile, alerts, uiRuns,
                   aggVars, modVars, runVars, pixVars>>

\* handleReset (page lines 29-31), called by the dashboard.
HandleReset ==
    /\ DashboardMounted
    /\ shown' = NoResult
    /\ UNCHANGED <<isAnalyzing, shownBy, uiPc, uiFile, alerts, uiRuns,
                   aggVars, modVars, runVars, pixVars>>

NextUI ==
    \/ \E f \in Files : HandleDrop(f)
    \/ \E f \in ChosenFiles : HandleFileInput(f)
    \/ \E r \in Runs : DelayElapses(r)
    \/ \E r \in Runs : AnalysisResolves(r)
    \/ \E r \in Runs : AnalysisRejects(r)
    \/ \E r \in Runs : AnalysisStalls(r)
    \/ HandleReset

SpecUI == InitUI /\ [][NextUI]_vars

\* Run r leaves line 19 in this step: analyzeImage has settled.
Settles(r) == uiPc[r] = "analyzing" /\ uiPc'[r] \in {"resolved", "rejected"}

\* C19: isAnalyzing is true from the start of a run until analyzeImage settles and
\* false once it has, on the success and on the failure path; a run that fails leaves
\* result as it was and raises the alert; result becomes non-null by a successful run
\* alone (to the result of the file of the run) and null again by handleReset alone.
C19_RunLifecycle ==
    /\ [](\A r \in Runs : InFlight(r) => isAnalyzing)
    /\ []((uiRuns > 0 /\ ~InFlight(uiRuns)) => ~isAnalyzing)
    /\ [][/\ uiRuns' # uiRuns => isAnalyzing' /\ shown' = shown
          /\ \A r \in Runs : Settles(r) =>
                /\ ~isAnalyzing'
                /\ \/ /\ uiPc'[r] = "resolved" /\ alerts' = alerts /\ uiFile[r].decodable
                      /\ shown' = SequentialResult(uiFile[r])
                   \/ uiPc'[r] = "rejected" /\ alerts' = alerts + 1 /\ shown' = shown
          /\ alerts' # alerts =>
                /\ \E r \in Runs : Settles(r) /\ uiPc'[r] = "rejected"
                /\ shown' = shown /\ alerts' = alerts + 1
          /\ (shown' # shown /\ shown' # NoResult) =>
                /\ \E r \in Runs : Settles(r) /\ uiPc'[r] = "resolved" /\ uiFile[r].decodable
                /\ alerts' = alerts
          /\ (shown' # shown /\ shown' = NoResult) =>
                UNCHANGED <<isAnalyzing, uiPc, uiFile, alerts, uiRuns>>]_vars

\* A run has failed after an earlier one succeeded and was reset: the alert was raised,
\* no result is stored, isAnalyzing is false again.
C19_Witness ==
    /\ uiRuns = 2
    /\ uiPc[1] = "resolved"
    /\ uiPc[2] = "rejected"
    /\ alerts = 1
    /\ uiFile[2].decodable
    /\ shown = NoResult
    /\ ~isAnalyzing

\* C30: at most one call of handleImageSelect is in flight at any time; isAnalyzing is
\* true exactly when one is; a call starts only while isAnalyzing is false, so the
\* finally block of a call never clears the flag under another call that is still
\* pending; and a result is stored only by a call that started after the call whose
\* result was stored before it.
C30_SingleRun ==
    /\ [](Cardinality({r \in Runs : InFlight(r)}) <= 1)
    /\ [](isAnalyzing <=> \E r \in Runs : InFlight(r))
    /\ [][/\ uiRuns' # uiRuns => (~isAnalyzing /\ \A r \in Runs : ~InFlight(r))
          /\ \A r \in Runs : Settles(r) =>
                \A q \in Runs \ {r} : ~InFlight(q)
          /\ \A r \in Runs : (Settles(r) /\ uiPc'[r] = "resolved") =>
                (r > shownBy /\ shownBy' = r)]_vars

\* A third run is waiting for analyzeImage after the first run resolved and was reset
\* and the second failed: it is the only run in flight.
C30_Witness ==
    /\ uiRuns = 3
    /\ uiPc[1] = "resolved"
    /\ uiPc[2] = "rejected"
    /\ uiPc[3] = "analyzing"
    /\ isAnalyzing
    /\ shown = NoResult
    /\ shownBy = 1

====
